---- MODULE Spec2Model ----
(***************************************************************************)
(* kago: the master's store, the reconciler (controller), the scheduler,   *)
(* the master API handlers and the node agents, as one state machine.      *)
(* Every action is one critical section of the code (one acquisition of    *)
(* the store lock, or one HTTP call to an agent) together with the local   *)
(* computation that follows it up to the next one.                         *)
(***************************************************************************)
EXTENDS Integers, Sequences, FiniteSets, TLC

VARIABLES
    deployments,   \* Store.deployments : name -> Deployment
    pods,          \* Store.pods        : uuid -> Pod
    nodes,         \* Store.nodes       : name -> Node
    agents,        \* per worker: AgentState.pods : uuid -> ManagedPod
    next_uuid,     \* the uuids handed out so far (uuid::Uuid::new_v4 is fresh)
    rec,           \* the reconciler task: position and locals of reconcile_all
    tp,            \* the frames of terminate_pod, one per calling task
    api,           \* the API task running a multi-step handler
    scheduling_strategy,  \* Controller.scheduling_strategy
    phase,         \* "open": operators and faults act; "steady": they stopped
    faults,        \* what may still go wrong or interfere, per kind of event
    began,         \* history: per deployment, the active pods it had when its
                   \* revision last changed (-1: it never changed)
    posted,        \* history: the last POST /pods that reached an agent a
                   \* second time, and the agent's answer to it
    creates,       \* the POST /deployments handlers: where each one is, its
                   \* request and, once it has answered, its status code
    reservation    \* history: per uuid of a pod of the store, "held" after an
                   \* allocation on a node succeeded for the pod, "released"
                   \* after a deallocation for it, "none" before

vars == <<deployments, pods, nodes, agents, next_uuid, rec, tp, api,
          scheduling_strategy, phase, faults, began, posted, creates, reservation>>

-----------------------------------------------------------------------------
(* Bounds of the model *)

MaxPods == 4
MaxReplicas == 2
MaxRevision == 2
MaxFaults == 1

DeploymentNames == {"web"}
NodeOrder == <<"w1", "w2">>
NodeNames == {NodeOrder[i] : i \in 1..Len(NodeOrder)}
Images == {"nginx:1", "nginx:2"}
Tasks == {"reconciler", "api"}

Res(c, m) == [cpu_millis |-> c, memory_mb |-> m]
PodResourceChoices == {Res(1, 1)}
CapacityChoices == {Res(2, 2)}
RollingUpdateChoices ==
    {[max_surge |-> 1, max_unavailable |-> 0], [max_surge |-> 1, max_unavailable |-> 1]}

None == "None"

-----------------------------------------------------------------------------
(* models.rs *)

Min(a, b) == IF a < b THEN a ELSE b

saturating_sub(a, b) == IF a >= b THEN a - b ELSE 0

subtract(self, other) ==
    Res(saturating_sub(self.cpu_millis, other.cpu_millis),
        saturating_sub(self.memory_mb, other.memory_mb))

fits(self, request) ==
    self.cpu_millis >= request.cpu_millis /\ self.memory_mb >= request.memory_mb

available_resources(node) == subtract(node.allocatable, node.used)

can_fit(node, request) == fits(available_resources(node), request)

RECURSIVE Digits(_)
Digits(n) == IF n < 10 THEN <<n>> ELSE Append(Digits(n \div 10), n % 10)

\* the name "<deployment>-<index>", kept as the pair of its two parts
PodName(deployment_name, index) == <<deployment_name, index>>

RECURSIVE LexLess(_, _)
LexLess(s, t) ==
    IF t = <<>> THEN FALSE
    ELSE IF s = <<>> THEN TRUE
    ELSE IF Head(s) # Head(t) THEN Head(s) < Head(t)
    ELSE LexLess(Tail(s), Tail(t))

\* String's Ord on two names of one deployment: the decimal texts of the indices
NameLess(a, b) == LexLess(Digits(a[2]), Digits(b[2]))

from_deployment(deployment, index, id) ==
    [id |-> id,
     name |-> PodName(deployment.name, index),
     image |-> deployment.image,
     resources |-> deployment.resources,
     deployment_name |-> deployment.name,
     status |-> "Pending",
     container_id |-> None,
     node_name |-> None,
     revision |-> deployment.revision]

NewNode(name, capacity) ==
    [name |-> name,
     capacity |-> capacity,
     allocatable |-> capacity,
     used |-> Res(0, 0),
     status |-> "Ready",
     last_heartbeat |-> "fresh"]

-----------------------------------------------------------------------------
(* store.rs: queries *)

Active(p) == p.status \notin {"Terminated", "Failed"}

list_pods_for_deployment(d) == {i \in DOMAIN pods : pods[i].deployment_name = d}

count_running_pods_for_deployment(d) ==
    Cardinality({i \in DOMAIN pods :
        pods[i].deployment_name = d /\ pods[i].status = "Running"})

\* a count that takes the Terminated and the Failed pods in
count_all_pods_for_deployment(d) ==
    Cardinality({i \in DOMAIN pods : pods[i].deployment_name = d})

count_active_pods_for_deployment(d) ==
    Cardinality({i \in DOMAIN pods : pods[i].deployment_name = d /\ Active(pods[i])})

Terminable(p) == p.status \notin {"Terminated", "Terminating", "Failed"}

get_old_revision_pods(d, current_revision) ==
    {i \in DOMAIN pods :
        /\ pods[i].deployment_name = d
        /\ pods[i].revision < current_revision
        /\ Terminable(pods[i])}

count_running_pods_for_revision(d, revision) ==
    Cardinality({i \in DOMAIN pods :
        /\ pods[i].deployment_name = d
        /\ pods[i].revision = revision
        /\ pods[i].status = "Running"})

count_active_pods_for_revision(d, revision) ==
    Cardinality({i \in DOMAIN pods :
        /\ pods[i].deployment_name = d
        /\ pods[i].revision = revision
        /\ Active(pods[i])})

\* the orders sort_by(|a, b| b.name.cmp(&a.name)) can leave the pods of S in,
\* cut to the first `count`: names descending, equal names in the map's order
SortedDescTake(S, count) ==
    LET n == Cardinality(S)
        orders == {s \in [1..n -> S] :
                     /\ \A i, j \in 1..n : i # j => s[i] # s[j]
                     /\ \A i, j \in 1..n :
                          i < j => ~NameLess(pods[s[i]].name, pods[s[j]].name)}
    IN  {SubSeq(s, 1, Min(count, n)) : s \in orders}

get_pods_to_terminate(d, count) ==
    SortedDescTake({i \in DOMAIN pods :
        pods[i].deployment_name = d /\ Terminable(pods[i])}, count)

get_old_pods_to_terminate(d, current_revision, count) ==
    SortedDescTake(get_old_revision_pods(d, current_revision), count)

get_unassigned_pods ==
    {i \in DOMAIN pods :
        pods[i].node_name = None /\ pods[i].status \in {"Pending", "Creating"}}

\* the nodes of the store whatever their status, sorted by name ascending
get_nodes_of_any_status == SelectSeq(NodeOrder, LAMBDA n : n \in DOMAIN nodes)

\* Ready nodes sorted by name ascending
get_ready_nodes ==
    SelectSeq(NodeOrder, LAMBDA n : n \in DOMAIN nodes /\ nodes[n].status = "Ready")

-----------------------------------------------------------------------------
(* store.rs: updates, as the new value of the map they change *)

add_pod(pod) == pod.id :> pod @@ pods

delete_pods(ids) == [i \in DOMAIN pods \ ids |-> pods[i]]

\* a status update that forgets the node of a pod it ends
update_pod_status_unassigning(ps, id, status) ==
    IF id \in DOMAIN ps
    THEN [ps EXCEPT ![id].status = status,
                    ![id].node_name = IF status \in {"Terminated", "Failed"} THEN None ELSE @]
    ELSE ps

update_pod_status(ps, id, status) ==
    IF id \in DOMAIN ps THEN [ps EXCEPT ![id].status = status] ELSE ps

\* an assignment that writes nothing
assign_pod_to_node_nowhere(ps, id, node_name) == ps

assign_pod_to_node(ps, id, node_name) ==
    IF id \in DOMAIN ps THEN [ps EXCEPT ![id].node_name = node_name] ELSE ps

register_node(node) == [n \in DOMAIN nodes \cup {node.name} |->
                          IF n = node.name THEN node ELSE nodes[n]]

delete_node(name) == [n \in DOMAIN nodes \ {name} |-> nodes[n]]

\* a status update that writes nothing
update_node_status_dropped(ns, name, status) == ns

update_node_status(ns, name, status) ==
    IF name \in DOMAIN ns THEN [ns EXCEPT ![name].status = status] ELSE ns

update_node_heartbeat(ns, name) ==
    IF name \in DOMAIN ns
    THEN [ns EXCEPT ![name].last_heartbeat = "fresh", ![name].status = "Ready"]
    ELSE ns

update_node_resources(ns, name, used) ==
    IF name \in DOMAIN ns THEN [ns EXCEPT ![name].used = used] ELSE ns

\* an allocation that does not ask whether the request fits
allocate_resources_unchecked(ns, name, resources) ==
    IF name \in DOMAIN ns
    THEN [ns EXCEPT ![name].used =
            Res(@.cpu_millis + resources.cpu_millis, @.memory_mb + resources.memory_mb)]
    ELSE ns

\* what allocate_resources_on_node returns
allocate_resources_on_node_returns(ns, name, resources) ==
    name \in DOMAIN ns /\ can_fit(ns[name], resources)

allocate_resources_on_node(ns, name, resources) ==
    IF name \in DOMAIN ns /\ can_fit(ns[name], resources)
    THEN [ns EXCEPT ![name].used =
            Res(@.cpu_millis + resources.cpu_millis, @.memory_mb + resources.memory_mb)]
    ELSE ns

\* a deallocation that does not stop at 0
deallocate_resources_below_zero(ns, name, resources) ==
    IF name \in DOMAIN ns
    THEN [ns EXCEPT ![name].used =
            Res(@.cpu_millis - resources.cpu_millis, @.memory_mb - resources.memory_mb)]
    ELSE ns

deallocate_resources_on_node(ns, name, resources) ==
    IF name \in DOMAIN ns
    THEN [ns EXCEPT ![name].used = subtract(@, resources)]
    ELSE ns

upsert_deployment(deployment) ==
    [d \in DOMAIN deployments \cup {deployment.name} |->
        IF d = deployment.name THEN deployment ELSE deployments[d]]

delete_deployment(name) == [d \in DOMAIN deployments \ {name} |-> deployments[d]]

-----------------------------------------------------------------------------
(* controller/scheduler.rs: the per-cycle node cache and the scores *)

\* `snapshot` and `bound` are history fields: the availability the entry was
\* built with, and the sum of the requests bound to the node in this pass and
\* not released again
build_node_cache ==
    [k \in 1..Len(get_ready_nodes) |->
        LET node == nodes[get_ready_nodes[k]]
        IN  [name |-> node.name,
             available |-> available_resources(node),
             capacity |-> node.capacity,
             snapshot |-> available_resources(node),
             bound |-> Res(0, 0)]]

\* a reservation that leaves the entry's availability as it was
reserve_unbooked(entry, request) ==
    [entry EXCEPT !.bound = Res(@.cpu_millis + request.cpu_millis,
                                @.memory_mb + request.memory_mb)]

reserve(entry, request) ==
    [entry EXCEPT !.available = subtract(@, request),
                  !.bound = Res(@.cpu_millis + request.cpu_millis,
                                @.memory_mb + request.memory_mb)]

\* saturating_add never saturates below 2^32, far above the model's numbers
release(entry, request) ==
    [entry EXCEPT !.available = Res(@.cpu_millis + request.cpu_millis,
                                    @.memory_mb + request.memory_mb),
                  !.bound = subtract(@, request)]

release_node_reservation(cache, node_name, request) ==
    LET hits == {k \in 1..Len(cache) : cache[k].name = node_name}
    IN  IF hits = {} THEN cache
        ELSE LET k == CHOOSE x \in hits : \A y \in hits : x <= y
             IN  [cache EXCEPT ![k] = release(@, request)]

\* a filter that lets every node pass
node_passes_filters_any(entry, request) == TRUE

node_passes_filters(entry, request) == fits(entry.available, request)

\* The scores are computed in f64. A non-negative f64 is kept as the integer
\* of its units of 2^-135, in ten limbs of 15 bits, least significant first:
\* every operation is done exactly on these integers and then rounded to 53
\* significant bits, ties to even, as IEEE 754 does. The representation holds
\* the values the scores meet for resources below 2^15.
LimbBase == 32768
LimbCount == 10

BigZero == [i \in 1..LimbCount |-> 0]

\* `n as f64` of an integer below the limb base
BigInt(n) == [i \in 1..LimbCount |-> IF i = LimbCount THEN n ELSE 0]

RECURSIVE BigAddFrom(_, _, _, _)
BigAddFrom(a, b, i, carry) ==
    IF i > LimbCount THEN <<>>
    ELSE LET sum == a[i] + b[i] + carry
         IN  <<sum % LimbBase>> \o BigAddFrom(a, b, i + 1, sum \div LimbBase)

BigAdd(a, b) == BigAddFrom(a, b, 1, 0)

\* a - b for a >= b
RECURSIVE BigSubFrom(_, _, _, _)
BigSubFrom(a, b, i, borrow) ==
    IF i > LimbCount THEN <<>>
    ELSE LET diff == a[i] - b[i] - borrow
         IN  <<(diff + LimbBase) % LimbBase>>
                \o BigSubFrom(a, b, i + 1, IF diff < 0 THEN 1 ELSE 0)

BigSub(a, b) == BigSubFrom(a, b, 1, 0)

BigLess(a, b) ==
    LET differ == {i \in 1..LimbCount : a[i] # b[i]}
    IN  /\ differ # {}
        /\ LET top == CHOOSE i \in differ : \A j \in differ : j <= i
           IN  a[top] < b[top]

\* a * k * LimbBase^shift for a limb k
RECURSIVE BigMulLimbFrom(_, _, _, _, _)
BigMulLimbFrom(a, k, shift, i, carry) ==
    IF i > LimbCount THEN <<>>
    ELSE LET prod == (IF i > shift THEN a[i - shift] * k ELSE 0) + carry
         IN  <<prod % LimbBase>>
                \o BigMulLimbFrom(a, k, shift, i + 1, prod \div LimbBase)

RECURSIVE BigMulFrom(_, _, _)
BigMulFrom(a, b, j) ==
    IF j > Len(b) THEN BigZero
    ELSE BigAdd(BigMulLimbFrom(a, b[j], j - 1, 1, 0), BigMulFrom(a, b, j + 1))

\* the limbs below limb i of the quotient of r * LimbBase^(i-1) by d, and the
\* remainder
RECURSIVE BigDivFrom(_, _, _)
BigDivFrom(r, d, i) ==
    IF i = 1 THEN [limbs |-> <<>>, rem |-> r]
    ELSE LET rest == BigDivFrom((r * LimbBase) % d, d, i - 1)
         IN  [limbs |-> Append(rest.limbs, (r * LimbBase) \div d), rem |-> rest.rem]

HighestLimb(a) ==
    CHOOSE i \in 1..LimbCount : a[i] # 0 /\ \A j \in (i + 1)..LimbCount : a[j] = 0

LimbBits(top, limb) ==
    15 * (top - 1) + (CHOOSE k \in 1..15 : 2^(k - 1) <= limb /\ limb < 2^k)

TopBits(a, top) == LimbBits(top, a[top])

BitLength(a) == IF a = BigZero THEN 0 ELSE TopBits(a, HighestLimb(a))

BigPow2(d) == [i \in 1..LimbCount |-> IF i = d \div 15 + 1 THEN 2^(d % 15) ELSE 0]

BigModPow2(a, d) ==
    [i \in 1..LimbCount |->
        IF i <= d \div 15 THEN a[i]
        ELSE IF i = d \div 15 + 1 THEN a[i] % 2^(d % 15) ELSE 0]

\* bit d of a
BigBit(a, d) == (a[d \div 15 + 1] \div 2^(d % 15)) % 2

\* a without its low part rem, rounded up by one unit of the kept part or not
RoundOff(a, rem, unit, up) ==
    IF up THEN BigAdd(BigSub(a, rem), unit) ELSE BigSub(a, rem)

\* round to nearest, ties to even, given the discarded part and its half
RoundHalf(a, inexact, d, rem, half) ==
    RoundOff(a, rem, BigPow2(d),
             BigLess(half, rem) \/ (rem = half /\ (inexact \/ BigBit(a, d) = 1)))

\* round off the d low bits
RoundLow(a, inexact, d) ==
    IF d <= 0 THEN a ELSE RoundHalf(a, inexact, d, BigModPow2(a, d), BigPow2(d - 1))

\* round to 53 significant bits: `inexact` says that the exact value lies
\* above a by less than one unit
RoundToF64(a, inexact) == RoundLow(a, inexact, BitLength(a) - 53)

QuotientOf(n, d, low) == RoundToF64(Append(low.limbs, n \div d), low.rem # 0)

\* f64 division of two integers below the limb base, d > 0
F64Div(n, d) == QuotientOf(n, d, BigDivFrom(n % d, d, LimbCount))

F64Add(x, y) == RoundToF64(BigAdd(x, y), FALSE)

\* x - y for x >= y
F64Sub(x, y) == RoundToF64(BigSub(x, y), FALSE)

\* |x - y|
F64AbsDiff(x, y) == IF BigLess(x, y) THEN F64Sub(y, x) ELSE F64Sub(x, y)

\* x * 100.0, for x <= 1.0
F64Mul100(x) == RoundToF64(BigMulLimbFrom(x, 100, 0, 1, 0), FALSE)

\* x * 0.3: the f64 nearest to 0.3 is 5404319552844595 * 2^-54, here in limbs
\* of units of 2^-60, and x is a multiple of 2^-75
F64MulThreeTenths(x) ==
    RoundToF64(BigMulFrom([i \in 1..LimbCount |-> IF i <= 6 THEN x[i + 4] ELSE 0],
                          <<19648, 6553, 13107, 9830>>, 1),
               FALSE)

\* `x as i64` of a non-negative f64: the integer part
F64AsInt(x) == x[LimbCount]

\* (remaining as f64 / capacity as f64) * 100.0, or 0.0 for no capacity
remaining_pct(avail, cap, req) ==
    IF cap > 0 THEN F64Mul100(F64Div(saturating_sub(avail, req), cap)) ELSE BigZero

remaining_cpu_pct(entry, request) ==
    remaining_pct(entry.available.cpu_millis, entry.capacity.cpu_millis,
                  request.cpu_millis)

remaining_mem_pct(entry, request) ==
    remaining_pct(entry.available.memory_mb, entry.capacity.memory_mb,
                  request.memory_mb)

score_least_allocated(entry, request) ==
    F64AsInt(F64Add(remaining_cpu_pct(entry, request),
                    remaining_mem_pct(entry, request)))

score_best_fit(entry, request) ==
    F64AsInt(F64Sub(BigInt(200), F64Add(remaining_cpu_pct(entry, request),
                                        remaining_mem_pct(entry, request))))

balanced(availability_score, balance_penalty) ==
    F64AsInt(F64Sub(availability_score, F64MulThreeTenths(balance_penalty)))

balanced_of(c, m) == balanced(F64Add(c, m), F64AbsDiff(c, m))

score_balanced(entry, request) ==
    balanced_of(remaining_cpu_pct(entry, request), remaining_mem_pct(entry, request))

calculate_node_score(strategy, entry, request) ==
    CASE strategy = "FirstFit" -> 0
      [] strategy = "BestFit" -> score_best_fit(entry, request)
      [] strategy = "LeastAllocated" -> score_least_allocated(entry, request)
      [] strategy = "Balanced" -> score_balanced(entry, request)

\* the index the selection loop ends with (0: no node passes the filters); a
\* later node replaces the choice only with a strictly greater score
best_choice(strategy, cache, request) ==
    LET ok == {k \in 1..Len(cache) : node_passes_filters(cache[k], request)}
        sc(k) == calculate_node_score(strategy, cache[k], request)
    IN  IF ok = {} THEN 0
        ELSE CHOOSE k \in ok :
               /\ \A j \in ok : sc(j) <= sc(k)
               /\ \A j \in ok : sc(j) = sc(k) => k <= j

-----------------------------------------------------------------------------
(* The tasks' locals *)

NoDeployment ==
    [name |-> None, image |-> None, replicas |-> 0, resources |-> Res(0, 0),
     rolling_update |-> [max_surge |-> 0, max_unavailable |-> 0], revision |-> 0]

\* `used_before` and `available_before` are history fields: the node's used in
\* the store and the cache entry's available when the pod's turn came
NoBind ==
    [pod_id |-> 0, node_name |-> None, resources |-> Res(0, 0),
     used_before |-> Res(0, 0), available_before |-> Res(0, 0)]

\* `overdue` is a history field: the nodes the tick's read of check_node_health
\* found past the timeout
RecIdle ==
    [pc |-> "idle", stale |-> {}, overdue |-> {}, deps |-> {}, deployment |-> NoDeployment,
     base |-> 0, to_create |-> 0, i |-> 0, final_index |-> 0, after_create |-> None,
     new_running |-> 0, total_running |-> 0, old_total |-> 0, min_available |-> 0,
     can_terminate |-> 0, pod_ids |-> <<>>,
     unassigned |-> {}, node_cache |-> <<>>, bind |-> NoBind, response |-> None,
     terminated |-> {}]

\* back in the loop over the deployments, the per-deployment locals dropped
NextDeployment(r) ==
    [r EXCEPT !.pc = "deployments", !.deployment = NoDeployment, !.base = 0,
              !.to_create = 0, !.i = 0, !.final_index = 0, !.after_create = None,
              !.new_running = 0, !.total_running = 0, !.old_total = 0,
              !.min_available = 0, !.can_terminate = 0, !.pod_ids = <<>>]

\* `began_terminated` is a history field: the pod was Terminated when the call
\* began
NoFrame ==
    [pc |-> "none", pod_id |-> 0, name |-> PodName(None, 0), node_name |-> None,
     resources |-> Res(0, 0), node_deletion_succeeded |-> FALSE,
     began_terminated |-> FALSE]

ApiIdle == [pc |-> "idle", pod_ids |-> {}]

\* the POST /deployments handlers that run side by side
Handlers == {"h1", "h2"}

\* a handler that no request has reached
NoCreate ==
    [pc |-> "idle", code |-> 0,
     req |-> [name |-> "", image |-> "", replicas |-> 0, resources |-> Res(0, 0),
              rolling_update |-> [max_surge |-> 0, max_unavailable |-> 0]]]

\* no allocation has been made for any pod
NoReservation == [p \in 1..MaxPods |-> "none"]

\* the history after deallocate_resources_on_node for the pod on the node (an
\* unknown node makes it return false with nothing deallocated); the history
\* is kept for the pods of the store
Released(pod_id, node_name) ==
    IF node_name \in DOMAIN nodes /\ pod_id \in DOMAIN pods
    THEN [reservation EXCEPT ![pod_id] = "released"] ELSE reservation

\* no POST /pods has reached an agent twice
NoPost ==
    [node_name |-> None, pod_id |-> 0, known |-> FALSE, code |-> 0,
     run_container |-> FALSE]

SchedulingStrategies == {"FirstFit"}

\* the kinds of disruptive requests, node events and failed calls
FaultKinds == {"create", "update", "delete_deployment", "delete_pod", "register",
               "delete_node", "expire", "exit", "call"}

RECURSIVE Total(_, _)
Total(b, kinds) ==
    IF kinds = {} THEN 0
    ELSE LET k == CHOOSE x \in kinds : TRUE IN b[k] + Total(b, kinds \ {k})

\* the budgets that allow `total` events of any kinds
Budgets(total) == {b \in [FaultKinds -> 0..total] : Total(b, FaultKinds) = total}

\* the budget that allows one event of each of `kinds`
OneOfEach(kinds) == [k \in FaultKinds |-> IF k \in kinds THEN 1 ELSE 0]

InitWith(budgets) ==
    /\ deployments = <<>>
    /\ pods = <<>>
    /\ nodes = <<>>
    /\ agents = [n \in NodeNames |-> <<>>]
    /\ next_uuid = 0
    /\ rec = RecIdle
    /\ tp = [t \in Tasks |-> NoFrame]
    /\ api = ApiIdle
    /\ scheduling_strategy \in SchedulingStrategies
    /\ phase = "open"
    /\ faults \in budgets
    /\ began = [d \in DeploymentNames |-> -1]
    /\ posted = NoPost
    /\ creates = [h \in Handlers |-> NoCreate]
    /\ reservation = NoReservation

Init == InitWith(Budgets(MaxFaults))

-----------------------------------------------------------------------------
(* agent.rs: the handlers of the agent, as the agent's part of a call *)

\* a handler that starts the container whatever the pod map holds
agent_create_pod_again(pod_map, req, run_ok) ==
    [code |-> 201, run_container |-> TRUE,
     pods |-> req.pod_id :> [pod_id |-> req.pod_id, name |-> req.name,
                             resources |-> req.resources,
                             container_id |-> "container",
                             status |-> "Running"] @@ pod_map]

\* POST /pods: the status code, whether run_container was called and the
\* agent's pod map after it; `run_ok` is the container runtime's answer
agent_create_pod(pod_map, req, run_ok) ==
    IF req.pod_id \in DOMAIN pod_map
    THEN [code |-> 409, run_container |-> FALSE, pods |-> pod_map]
    ELSE IF run_ok
    THEN [code |-> 201, run_container |-> TRUE,
          pods |-> req.pod_id :> [pod_id |-> req.pod_id, name |-> req.name,
                                  resources |-> req.resources,
                                  container_id |-> "container",
                                  status |-> "Running"] @@ pod_map]
    ELSE [code |-> 500, run_container |-> TRUE,
          pods |-> req.pod_id :> [pod_id |-> req.pod_id, name |-> req.name,
                                  resources |-> req.resources,
                                  container_id |-> None,
                                  status |-> "Failed"] @@ pod_map]

\* DELETE /pods/{name}: the outcomes (find takes any pod of that name)
agent_delete_pod(pod_map, name) ==
    LET found == {i \in DOMAIN pod_map : pod_map[i].name = name}
    IN  IF found = {} THEN {[code |-> 404, pods |-> pod_map]}
        ELSE {[code |-> 200, pods |-> [j \in DOMAIN pod_map \ {i} |-> pod_map[j]]]
                : i \in found}

RECURSIVE SumResources(_, _)
SumResources(pod_map, ids) ==
    IF ids = {} THEN Res(0, 0)
    ELSE LET i == CHOOSE x \in ids : TRUE
             rest == SumResources(pod_map, ids \ {i})
         IN  Res(rest.cpu_millis + pod_map[i].resources.cpu_millis,
                 rest.memory_mb + pod_map[i].resources.memory_mb)

calculate_used_resources(pod_map) ==
    SumResources(pod_map,
                 {i \in DOMAIN pod_map : pod_map[i].status \in {"Running", "Creating"}})

is_success(code) == code >= 200 /\ code < 300

\* how a call of the master to an agent can go: the agent serves it and the
\* answer arrives; the agent serves it and the answer is lost (timeout); the
\* request never reaches the agent
CallOutcomes == IF phase = "open" /\ faults["call"] > 0
                THEN {"served", "lost", "unreachable"} ELSE {"served"}

Spend(outcome) ==
    IF outcome = "served" THEN faults ELSE [faults EXCEPT !["call"] = @ - 1]

\* the budget after an event of `kind`
Disrupt(kind) == [faults EXCEPT ![kind] = @ - 1]

-----------------------------------------------------------------------------
(* controller/mod.rs: terminate_pod, run by the reconciler or by an API task *)

\* the frame after the first read of terminate_pod (no pod: the call returns)
terminate_pod(pod_id) ==
    IF pod_id \in DOMAIN pods
    THEN [pc |-> "mark", pod_id |-> pod_id, name |-> pods[pod_id].name,
          node_name |-> pods[pod_id].node_name,
          resources |-> pods[pod_id].resources,
          node_deletion_succeeded |-> pods[pod_id].node_name = None,
          began_terminated |-> pods[pod_id].status = "Terminated"]
    ELSE NoFrame

TerminateMark(t) ==
    /\ tp[t].pc = "mark"
    /\ pods' = update_pod_status(pods, tp[t].pod_id, "Terminating")
    /\ tp' = [tp EXCEPT ![t].pc = IF tp[t].node_name = None THEN "final" ELSE "endpoint"]
    /\ UNCHANGED <<creates, reservation, posted, began, deployments, nodes, agents, next_uuid, rec, api,
                   scheduling_strategy, phase, faults>>

TerminateEndpoint(t) ==
    /\ tp[t].pc = "endpoint"
    /\ tp' = [tp EXCEPT ![t].pc =
                IF tp[t].node_name \in DOMAIN nodes THEN "call" ELSE "final"]
    /\ UNCHANGED <<creates, reservation, posted, began, deployments, pods, nodes, agents, next_uuid, rec, api,
                   scheduling_strategy, phase, faults>>

TerminateCall(t) ==
    /\ tp[t].pc = "call"
    /\ \E outcome \in CallOutcomes :
         \E answer \in agent_delete_pod(agents[tp[t].node_name], tp[t].name) :
            LET ok == outcome = "served" /\ is_success(answer.code)
            IN  /\ agents' = IF outcome = "unreachable" THEN agents
                             ELSE [agents EXCEPT ![tp[t].node_name] = answer.pods]
                /\ tp' = [tp EXCEPT ![t].node_deletion_succeeded = ok,
                                    ![t].pc = IF ok THEN "dealloc" ELSE "final"]
                /\ faults' = Spend(outcome)
    /\ UNCHANGED <<creates, reservation, posted, began, deployments, pods, nodes, next_uuid, rec, api,
                   scheduling_strategy, phase>>

TerminateDealloc(t) ==
    /\ tp[t].pc = "dealloc"
    /\ nodes' = deallocate_resources_on_node(nodes, tp[t].node_name, tp[t].resources)
    /\ reservation' = Released(tp[t].pod_id, tp[t].node_name)
    /\ tp' = [tp EXCEPT ![t].pc = "final"]
    /\ UNCHANGED <<creates, posted, began, deployments, pods, agents, next_uuid, rec, api,
                   scheduling_strategy, phase, faults>>

TerminateFinal(t) ==
    /\ tp[t].pc = "final"
    /\ pods' = update_pod_status(pods, tp[t].pod_id,
                  IF tp[t].node_deletion_succeeded THEN "Terminated" ELSE "Running")
    /\ tp' = [tp EXCEPT ![t] = NoFrame]
    /\ UNCHANGED <<creates, reservation, posted, began, deployments, nodes, agents, next_uuid, rec, api,
                   scheduling_strategy, phase, faults>>

TerminateStep(t) ==
    \/ TerminateMark(t)
    \/ TerminateEndpoint(t)
    \/ TerminateCall(t)
    \/ TerminateDealloc(t)
    \/ TerminateFinal(t)

-----------------------------------------------------------------------------
(* controller/mod.rs: reconcile_all *)

\* the tick fires: check_node_health reads the nodes
Tick ==
    /\ rec.pc = "idle"
    /\ rec' = [rec EXCEPT !.pc = "health",
                 !.stale = {n \in DOMAIN nodes : nodes[n].last_heartbeat = "expired"},
                 !.overdue = {n \in DOMAIN nodes : nodes[n].last_heartbeat = "expired"}]
    /\ UNCHANGED <<creates, reservation, posted, began, deployments, pods, nodes, agents, next_uuid, tp, api,
                   scheduling_strategy, phase, faults>>

MarkNotReady ==
    /\ rec.pc = "health"
    /\ \E n \in rec.stale :
         /\ nodes' = update_node_status(nodes, n, "NotReady")
         /\ rec' = [rec EXCEPT !.stale = @ \ {n}]
    /\ UNCHANGED <<creates, reservation, posted, began, deployments, pods, agents, next_uuid, tp, api,
                   scheduling_strategy, phase, faults>>

ListDeployments ==
    /\ rec.pc = "health"
    /\ rec.stale = {}
    /\ rec' = [rec EXCEPT !.pc = "deployments",
                          !.deps = {deployments[d] : d \in DOMAIN deployments}]
    /\ UNCHANGED <<creates, reservation, posted, began, deployments, pods, nodes, agents, next_uuid, tp, api,
                   scheduling_strategy, phase, faults>>

\* reconcile_deployment up to its existence check
ReconcileDeployment ==
    /\ rec.pc = "deployments"
    /\ \E d \in rec.deps :
         rec' = IF d.name \in DOMAIN deployments
                THEN [rec EXCEPT !.pc = "status", !.deployment = d, !.deps = @ \ {d}]
                ELSE [rec EXCEPT !.deps = @ \ {d}]
    /\ UNCHANGED <<creates, reservation, posted, began, deployments, pods, nodes, agents, next_uuid, tp, api,
                   scheduling_strategy, phase, faults>>

\* a status check that never sees a rolling update
check_rolling_update_status_none(deployment) == "NoUpdate"

check_rolling_update_status(deployment) ==
    IF get_old_revision_pods(deployment.name, deployment.revision) = {}
    THEN "NoUpdate" ELSE "InProgress"

CheckRollingUpdateStatus ==
    /\ rec.pc = "status"
    /\ rec' = [rec EXCEPT !.pc =
                 IF check_rolling_update_status(rec.deployment) = "InProgress"
                 THEN "rolling" ELSE "normal"]
    /\ UNCHANGED <<creates, reservation, posted, began, deployments, pods, nodes, agents, next_uuid, tp, api,
                   scheduling_strategy, phase, faults>>

\* reconcile_normal: the count, and what follows from it
ReconcileNormal ==
    /\ rec.pc = "normal"
    /\ LET current_count == count_active_pods_for_deployment(rec.deployment.name)
           desired_count == rec.deployment.replicas
       IN  rec' = IF current_count < desired_count
                  THEN [rec EXCEPT !.pc = "create", !.base = current_count,
                                   !.to_create = desired_count - current_count,
                                   !.i = 0, !.after_create = "deployments"]
                  ELSE IF current_count > desired_count
                  THEN [rec EXCEPT !.pc = "select_normal",
                                   !.can_terminate = current_count - desired_count]
                  ELSE NextDeployment(rec)
    /\ UNCHANGED <<creates, reservation, posted, began, deployments, pods, nodes, agents, next_uuid, tp, api,
                   scheduling_strategy, phase, faults>>

\* the index create_pod_for_deployment ends with
create_pod_for_deployment(deployment, index) ==
    LET existing_names == {pods[p].name :
            p \in {q \in list_pods_for_deployment(deployment.name) : Active(pods[q])}}
        free == {j \in index..(index + Cardinality(existing_names)) :
                    PodName(deployment.name, j) \notin existing_names}
    IN  CHOOSE j \in free : \A k \in free : j <= k

CreatePod ==
    /\ rec.pc = "create"
    /\ next_uuid < MaxPods
    /\ rec' = [rec EXCEPT !.pc = "add",
                 !.final_index = create_pod_for_deployment(rec.deployment, rec.base + rec.i)]
    /\ UNCHANGED <<creates, reservation, posted, began, deployments, pods, nodes, agents, next_uuid, tp, api,
                   scheduling_strategy, phase, faults>>

AddPod ==
    /\ rec.pc = "add"
    /\ pods' = add_pod(from_deployment(rec.deployment, rec.final_index, next_uuid + 1))
    /\ next_uuid' = next_uuid + 1
    /\ rec' = IF rec.i + 1 < rec.to_create
              THEN [rec EXCEPT !.pc = "create", !.i = @ + 1, !.final_index = 0]
              ELSE IF rec.after_create = "deployments" THEN NextDeployment(rec)
              ELSE [rec EXCEPT !.pc = rec.after_create, !.i = 0, !.final_index = 0,
                               !.to_create = 0, !.base = 0, !.after_create = None]
    /\ UNCHANGED <<creates, reservation, posted, began, deployments, nodes, agents, tp, api, scheduling_strategy,
                   phase, faults>>

SelectNormal ==
    /\ rec.pc = "select_normal"
    /\ \E ids \in get_pods_to_terminate(rec.deployment.name, rec.can_terminate) :
         rec' = [rec EXCEPT !.pc = "terminate", !.pod_ids = ids]
    /\ UNCHANGED <<creates, reservation, posted, began, deployments, pods, nodes, agents, next_uuid, tp, api,
                   scheduling_strategy, phase, faults>>

\* how many pods of the current revision the surge lets the tick create
to_create(desired, max_surge, total_pods, new_total) ==
    LET max_total == desired + max_surge
        can_create == saturating_sub(max_total, total_pods)
        new_pods_needed == saturating_sub(desired, new_total)
    IN  Min(can_create, new_pods_needed)

\* the retire count without the floor of min_available
can_terminate_all(total_running, min_available, new_running, max_unavailable, old_running) ==
    old_running

\* the retire count without the gate on new_running and max_unavailable
can_terminate_ungated(total_running, min_available, new_running, max_unavailable, old_running) ==
    IF total_running > min_available
    THEN Min(total_running - min_available, old_running)
    ELSE 0

\* how many old pods the tick may terminate
can_terminate(total_running, min_available, new_running, max_unavailable, old_running) ==
    IF total_running > min_available
    THEN LET excess == total_running - min_available
         IN  IF new_running > 0 \/ max_unavailable > 0
             THEN Min(excess, old_running)
             ELSE 0
    ELSE 0

\* reconcile_rolling_update: the counts, and the pods to create
ReconcileRollingUpdate ==
    /\ rec.pc = "rolling"
    /\ LET deployment == rec.deployment
           config == deployment.rolling_update
           desired == deployment.replicas
           new_running ==
               count_running_pods_for_revision(deployment.name, deployment.revision)
           new_total ==
               count_active_pods_for_revision(deployment.name, deployment.revision)
           old_pods == get_old_revision_pods(deployment.name, deployment.revision)
           old_running == Cardinality({p \in old_pods : pods[p].status = "Running"})
           old_total == Cardinality(old_pods)
           total_running == new_running + old_running
           total_pods == new_total + old_total
           n == to_create(desired, config.max_surge, total_pods, new_total)
           min_available == saturating_sub(desired, config.max_unavailable)
           r == [rec EXCEPT !.new_running = new_running,
                            !.total_running = total_running,
                            !.old_total = old_total,
                            !.min_available = min_available,
                            !.can_terminate =
                                can_terminate(total_running, min_available, new_running,
                                              config.max_unavailable, old_running)]
       IN  rec' = IF n > 0
                  THEN [r EXCEPT !.pc = "create", !.base = new_total, !.to_create = n,
                                 !.i = 0, !.after_create = "retire"]
                  ELSE [r EXCEPT !.pc = "retire"]
    /\ UNCHANGED <<creates, reservation, posted, began, deployments, pods, nodes, agents, next_uuid, tp, api,
                   scheduling_strategy, phase, faults>>

\* reconcile_rolling_update after its create loop: old pods are retired or not
RetireOldPods ==
    /\ rec.pc = "retire"
    /\ rec' = IF rec.can_terminate > 0 /\ rec.old_total > 0
              THEN [rec EXCEPT !.pc = "select_rolling"]
              ELSE NextDeployment(rec)
    /\ UNCHANGED <<creates, reservation, posted, began, deployments, pods, nodes, agents, next_uuid, tp, api,
                   scheduling_strategy, phase, faults>>

SelectRolling ==
    /\ rec.pc = "select_rolling"
    /\ \E ids \in get_old_pods_to_terminate(rec.deployment.name,
                       rec.deployment.revision, rec.can_terminate) :
         rec' = [rec EXCEPT !.pc = "terminate", !.pod_ids = ids]
    /\ UNCHANGED <<creates, reservation, posted, began, deployments, pods, nodes, agents, next_uuid, tp, api,
                   scheduling_strategy, phase, faults>>

\* the loop over pod_ids: the next terminate_pod starts, or the loop ends
TerminateNext ==
    /\ rec.pc = "terminate"
    /\ tp["reconciler"].pc = "none"
    /\ IF rec.pod_ids = <<>>
       THEN /\ rec' = NextDeployment(rec)
            /\ tp' = tp
       ELSE /\ rec' = [rec EXCEPT !.pod_ids = Tail(@)]
            /\ tp' = [tp EXCEPT !["reconciler"] = terminate_pod(Head(rec.pod_ids))]
    /\ UNCHANGED <<creates, reservation, posted, began, deployments, pods, nodes, agents, next_uuid, api,
                   scheduling_strategy, phase, faults>>

-----------------------------------------------------------------------------
(* controller/scheduler.rs: schedule_pending_pods and bind_pod_to_node *)

\* the loop over the deployments is over: the scheduler reads the pending pods
SchedulePendingPods ==
    /\ rec.pc = "deployments"
    /\ rec.deps = {}
    /\ rec' = [rec EXCEPT !.pc = "cache",
                 !.unassigned = {p \in get_unassigned_pods : pods[p].status = "Pending"}]
    /\ UNCHANGED <<creates, reservation, posted, began, deployments, pods, nodes, agents, next_uuid, tp, api,
                   scheduling_strategy, phase, faults>>

BuildNodeCache ==
    /\ rec.pc = "cache"
    /\ rec' = [rec EXCEPT !.pc = "schedule", !.node_cache = build_node_cache]
    /\ UNCHANGED <<creates, reservation, posted, began, deployments, pods, nodes, agents, next_uuid, tp, api,
                   scheduling_strategy, phase, faults>>

\* the next pod of the snapshot finds no node
ScheduleNone ==
    /\ rec.pc = "schedule"
    /\ \E p \in rec.unassigned :
         /\ best_choice(scheduling_strategy, rec.node_cache, pods[p].resources) = 0
         /\ rec' = [rec EXCEPT !.unassigned = @ \ {p}]
    /\ UNCHANGED <<creates, reservation, posted, began, deployments, pods, nodes, agents, next_uuid, tp, api,
                   scheduling_strategy, phase, faults>>

\* the next pod of the snapshot gets a node: the reservation in the cache and
\* the first critical section of bind_pod_to_node
ScheduleBind ==
    /\ rec.pc = "schedule"
    /\ \E p \in rec.unassigned :
         LET resources == pods[p].resources
             k == best_choice(scheduling_strategy, rec.node_cache, resources)
             node_name == rec.node_cache[k].name
         IN  /\ k # 0
             /\ rec' = [rec EXCEPT !.pc = "bind_call",
                          !.unassigned = @ \ {p},
                          !.node_cache[k] = reserve(@, resources),
                          !.bind = [pod_id |-> p, node_name |-> node_name,
                                    resources |-> resources,
                                    used_before |->
                                        IF node_name \in DOMAIN nodes
                                        THEN nodes[node_name].used ELSE Res(0, 0),
                                    available_before |->
                                        rec.node_cache[k].available]]
             /\ pods' = update_pod_status(assign_pod_to_node(pods, p, node_name),
                                          p, "Creating")
             /\ nodes' = allocate_resources_on_node(nodes, node_name, resources)
             /\ reservation' =
                  IF allocate_resources_on_node_returns(nodes, node_name, resources)
                  THEN [reservation EXCEPT ![p] = "held"] ELSE reservation
    /\ UNCHANGED <<creates, posted, began, deployments, agents, next_uuid, tp, api, scheduling_strategy,
                   phase, faults>>

\* a bind that keeps the store's write lock over the POST: the call and the
\* write of the pod's status are one step
BindCallHoldingStore ==
    /\ rec.pc = "bind_call"
    /\ LET n == rec.bind.node_name
           p == rec.bind.pod_id
           req == [pod_id |-> p,
                   name |-> IF p \in DOMAIN pods THEN pods[p].name
                            ELSE PodName(None, 0),
                   resources |-> rec.bind.resources]
       IN  agents' = [agents EXCEPT ![n] = agent_create_pod(@, req, TRUE).pods]
    /\ pods' = update_pod_status(pods, rec.bind.pod_id, "Running")
    /\ rec' = [rec EXCEPT !.pc = "bind_result", !.response = "ok"]
    /\ UNCHANGED <<creates, reservation, posted, began, deployments, nodes, next_uuid, tp, api,
                   scheduling_strategy, phase, faults>>

\* POST {endpoint}/pods
BindCall ==
    /\ rec.pc = "bind_call"
    /\ \E outcome \in CallOutcomes :
         \E run_ok \in IF phase = "open" /\ Spend(outcome)["call"] > 0
                       THEN BOOLEAN ELSE {TRUE} :
            LET n == rec.bind.node_name
                p == rec.bind.pod_id
                req == [pod_id |-> p,
                        name |-> IF p \in DOMAIN pods THEN pods[p].name
                                 ELSE PodName(None, 0),
                        resources |-> rec.bind.resources]
                answer == agent_create_pod(agents[n], req, run_ok)
                ok == outcome = "served" /\ is_success(answer.code)
            IN  /\ agents' = IF outcome = "unreachable" THEN agents
                             ELSE [agents EXCEPT ![n] = answer.pods]
                /\ rec' = [rec EXCEPT !.pc = "bind_result",
                                      !.response = IF ok THEN "ok" ELSE "failed"]
                /\ faults' = IF outcome # "unreachable" /\ answer.code = 500
                             THEN [Spend(outcome) EXCEPT !["call"] = @ - 1]
                             ELSE Spend(outcome)
    /\ UNCHANGED <<creates, reservation, posted, began, deployments, pods, nodes, next_uuid, tp, api,
                   scheduling_strategy, phase>>

mark_pod_failed(pod_id, node_name, resources) ==
    /\ pods' = update_pod_status(pods, pod_id, "Failed")
    /\ nodes' = deallocate_resources_on_node(nodes, node_name, resources)

BindResult ==
    /\ rec.pc = "bind_result"
    /\ IF rec.response = "ok"
       THEN /\ pods' = update_pod_status(pods, rec.bind.pod_id, "Running")
            /\ nodes' = nodes
            /\ reservation' = reservation
            /\ rec' = [rec EXCEPT !.pc = "schedule", !.bind = NoBind, !.response = None]
       ELSE /\ mark_pod_failed(rec.bind.pod_id, rec.bind.node_name, rec.bind.resources)
            /\ reservation' = Released(rec.bind.pod_id, rec.bind.node_name)
            /\ rec' = [rec EXCEPT !.pc = "schedule", !.bind = NoBind, !.response = None,
                         !.node_cache = release_node_reservation(rec.node_cache,
                                            rec.bind.node_name, rec.bind.resources)]
    /\ UNCHANGED <<creates, posted, began, deployments, agents, next_uuid, tp, api, scheduling_strategy,
                   phase, faults>>

-----------------------------------------------------------------------------
(* controller/mod.rs: cleanup_terminated_pods *)

\* the scheduling pass is over: the garbage collection reads the pods
CleanupList ==
    /\ rec.pc = "schedule"
    /\ rec.unassigned = {}
    /\ LET terminated == {p \in DOMAIN pods : pods[p].status = "Terminated"}
       IN  rec' = IF terminated = {} THEN RecIdle
                  ELSE [RecIdle EXCEPT !.pc = "cleanup", !.terminated = terminated]
    /\ UNCHANGED <<creates, reservation, posted, began, deployments, pods, nodes, agents, next_uuid, tp, api,
                   scheduling_strategy, phase, faults>>

CleanupDelete ==
    /\ rec.pc = "cleanup"
    /\ pods' = delete_pods(rec.terminated)
    /\ reservation' = [p \in 1..MaxPods |->
                         IF p \in rec.terminated THEN "none" ELSE reservation[p]]
    /\ rec' = RecIdle
    /\ UNCHANGED <<creates, posted, began, deployments, nodes, agents, next_uuid, tp, api,
                   scheduling_strategy, phase, faults>>

\* the tick but for what it does to nodes whose heartbeats stopped
ReconcilerSteps ==
    \/ Tick
    \/ ListDeployments
    \/ ReconcileDeployment
    \/ CheckRollingUpdateStatus
    \/ ReconcileNormal
    \/ ReconcileRollingUpdate
    \/ RetireOldPods
    \/ CreatePod
    \/ AddPod
    \/ SelectNormal
    \/ SelectRolling
    \/ TerminateNext
    \/ TerminateStep("reconciler")
    \/ SchedulePendingPods
    \/ BuildNodeCache
    \/ ScheduleNone
    \/ ScheduleBind
    \/ BindCall
    \/ BindResult
    \/ CleanupList
    \/ CleanupDelete

Reconciler == ReconcilerSteps \/ MarkNotReady

-----------------------------------------------------------------------------
(* api/deployments.rs, api/pods.rs, api/nodes.rs: the master's handlers *)

\* the bodies of POST /deployments: the name or the image may be empty
CreateRequests ==
    [name : DeploymentNames \cup {""}, image : {"nginx:1", ""},
     replicas : 1..MaxReplicas, resources : PodResourceChoices,
     rolling_update : RollingUpdateChoices]

\* a handler without the check for an existing deployment
create_deployment_unchecked(req) ==
    IF req.name = "" \/ req.image = ""
    THEN [code |-> 400, deployments |-> deployments]
    ELSE [code |-> 201,
          deployments |-> upsert_deployment(
              [name |-> req.name, image |-> req.image, replicas |-> req.replicas,
               resources |-> req.resources, rolling_update |-> req.rolling_update,
               revision |-> 1])]

\* POST /deployments: the status code and the deployments of the store after it
create_deployment(req) ==
    IF req.name = "" THEN [code |-> 400, deployments |-> deployments]
    ELSE IF req.image = "" THEN [code |-> 400, deployments |-> deployments]
    ELSE IF req.name \in DOMAIN deployments
    THEN [code |-> 409, deployments |-> deployments]
    ELSE [code |-> 201,
          deployments |-> upsert_deployment(
              [name |-> req.name, image |-> req.image, replicas |-> req.replicas,
               resources |-> req.resources, rolling_update |-> req.rolling_update,
               revision |-> 1])]

\* POST /deployments; a create after the first pods were made counts as a
\* disruptive request (a request answered 400 or 409 changes nothing: its step
\* is a stuttering step). This is a handler that runs with no other create
\* between its read and its write; CreateCheck and CreateUpsert are the two
\* halves taken apart
CreateDeployment ==
    /\ phase = "open"
    /\ next_uuid > 0 => faults["create"] > 0
    /\ \E req \in CreateRequests :
         LET answer == create_deployment(req)
         IN  /\ answer.code = 201
             /\ deployments' = answer.deployments
             /\ began' = [began EXCEPT ![req.name] = -1]
    /\ faults' = IF next_uuid > 0 THEN Disrupt("create") ELSE faults
    /\ UNCHANGED <<creates, reservation, posted, pods, nodes, agents, next_uuid, rec, tp, api,
                   scheduling_strategy, phase>>

\* POST /deployments of handler h up to the end of its read of the store: the
\* request is refused, or the handler goes on to its write
CreateCheck(h) ==
    /\ creates[h].pc = "idle"
    /\ \E req \in CreateRequests :
         LET code == create_deployment(req).code
         IN  creates' = [creates EXCEPT ![h] =
                           IF code = 201 THEN [pc |-> "write", code |-> 0, req |-> req]
                           ELSE [pc |-> "done", code |-> code, req |-> req]]
    /\ UNCHANGED <<reservation, posted, began, deployments, pods, nodes, agents, next_uuid,
                   rec, tp, api, scheduling_strategy, phase, faults>>

\* the write of handler h and its answer
CreateUpsert(h) ==
    /\ creates[h].pc = "write"
    /\ deployments' = create_deployment_unchecked(creates[h].req).deployments
    /\ creates' = [creates EXCEPT ![h].pc = "done", ![h].code = 201]
    /\ began' = [began EXCEPT ![creates[h].req.name] = -1]
    /\ UNCHANGED <<reservation, posted, pods, nodes, agents, next_uuid, rec, tp, api,
                   scheduling_strategy, phase, faults>>

\* a revision that goes up on every PUT
next_revision_always(deployment, image) == deployment.revision + 1

\* the revision after a PUT that carries `image` (None: the request has none)
next_revision(deployment, image) ==
    IF image # None /\ image # deployment.image
    THEN deployment.revision + 1 ELSE deployment.revision

\* PUT /deployments/{name}
UpdateDeployment ==
    /\ phase = "open"
    /\ faults["update"] > 0
    /\ \E name \in DOMAIN deployments, image \in Images \cup {None},
          replicas \in (0..MaxReplicas) \cup {-1} :
         LET old == deployments[name]
             new == [old EXCEPT
                       !.replicas = IF replicas # -1 THEN replicas ELSE @,
                       !.image = IF image # None THEN image ELSE @,
                       !.revision = next_revision(old, image)]
         IN  /\ new # old
             /\ new.revision <= MaxRevision
             /\ deployments' = upsert_deployment(new)
             /\ began' = IF new.revision # old.revision
                         THEN [began EXCEPT ![name] =
                                 count_active_pods_for_deployment(name)]
                         ELSE began
    /\ faults' = Disrupt("update")
    /\ UNCHANGED <<creates, reservation, posted, pods, nodes, agents, next_uuid, rec, tp, api,
                   scheduling_strategy, phase>>

\* DELETE /deployments/{name}: the record goes, terminate_deployment follows
DeleteDeployment ==
    /\ phase = "open"
    /\ faults["delete_deployment"] > 0
    /\ api.pc = "idle"
    /\ \E name \in DOMAIN deployments :
         /\ deployments' = delete_deployment(name)
         /\ api' = [api EXCEPT !.pc = name]
    /\ faults' = Disrupt("delete_deployment")
    /\ UNCHANGED <<creates, reservation, posted, began, pods, nodes, agents, next_uuid, rec, tp,
                   scheduling_strategy, phase>>

\* terminate_deployment reads the pods of the deployment
TerminateDeploymentList ==
    /\ api.pc \in DeploymentNames
    /\ api' = [pc |-> "terminate",
               pod_ids |-> {p \in list_pods_for_deployment(api.pc) :
                              pods[p].status \notin {"Terminated", "Terminating"}}]
    /\ UNCHANGED <<creates, reservation, posted, began, deployments, pods, nodes, agents, next_uuid, rec, tp,
                   scheduling_strategy, phase, faults>>

\* the loop of terminate_deployment, and the end of DELETE /pods/{id}
ApiTerminateNext ==
    /\ api.pc = "terminate"
    /\ tp["api"].pc = "none"
    /\ IF api.pod_ids = {}
       THEN /\ api' = ApiIdle
            /\ tp' = tp
       ELSE \E p \in api.pod_ids :
              /\ api' = [api EXCEPT !.pod_ids = @ \ {p}]
              /\ tp' = [tp EXCEPT !["api"] = terminate_pod(p)]
    /\ UNCHANGED <<creates, reservation, posted, began, deployments, pods, nodes, agents, next_uuid, rec,
                   scheduling_strategy, phase, faults>>

\* DELETE /pods/{id} of a pod in the store (404 otherwise)
DeletePod ==
    /\ phase = "open"
    /\ faults["delete_pod"] > 0
    /\ api.pc = "idle"
    /\ \E p \in DOMAIN pods :
         /\ api' = [pc |-> "terminate", pod_ids |-> {}]
         /\ tp' = [tp EXCEPT !["api"] = terminate_pod(p)]
    /\ faults' = Disrupt("delete_pod")
    /\ UNCHANGED <<creates, reservation, posted, began, deployments, pods, nodes, agents, next_uuid, rec,
                   scheduling_strategy, phase>>

\* POST /nodes/register; registering a node the store holds replaces it
Register(name) ==
    /\ phase = "open"
    /\ name \in DOMAIN nodes => faults["register"] > 0
    /\ \E capacity \in CapacityChoices :
         nodes' = register_node(NewNode(name, capacity))
    /\ faults' = IF name \in DOMAIN nodes THEN Disrupt("register") ELSE faults
    /\ UNCHANGED <<creates, reservation, posted, began, deployments, pods, agents, next_uuid, rec, tp, api,
                   scheduling_strategy, phase>>

RegisterNode == \E name \in NodeNames : Register(name)

\* DELETE /nodes/{name}
DeleteNode ==
    /\ phase = "open"
    /\ faults["delete_node"] > 0
    /\ \E name \in DOMAIN nodes : nodes' = delete_node(name)
    /\ faults' = Disrupt("delete_node")
    /\ UNCHANGED <<creates, reservation, posted, began, deployments, pods, agents, next_uuid, rec, tp, api,
                   scheduling_strategy, phase>>

\* the pod statuses of a heartbeat, merged into the store's pods
merge_pod_statuses(ps, pod_map) ==
    [p \in DOMAIN ps |->
        IF p \in DOMAIN pod_map
        THEN [ps[p] EXCEPT
                !.status = IF ps[p].status # pod_map[p].status
                              /\ ps[p].status \notin {"Terminated", "Terminating"}
                           THEN pod_map[p].status ELSE @,
                !.container_id = IF pod_map[p].container_id # None
                                 THEN pod_map[p].container_id ELSE @]
        ELSE ps[p]]

\* POST /nodes/{name}/heartbeat with what the agent of the node reports
NodeHeartbeat ==
    /\ \E name \in DOMAIN nodes :
         /\ nodes' = update_node_resources(update_node_heartbeat(nodes, name), name,
                                           calculate_used_resources(agents[name]))
         /\ pods' = merge_pod_statuses(pods, agents[name])
    /\ UNCHANGED <<creates, reservation, posted, began, deployments, agents, next_uuid, rec, tp, api,
                   scheduling_strategy, phase, faults>>

-----------------------------------------------------------------------------
(* The world around the master *)

\* a node's last heartbeat gets older than node_timeout
HeartbeatExpires ==
    /\ phase = "open"
    /\ faults["expire"] > 0
    /\ \E name \in DOMAIN nodes :
         /\ nodes[name].last_heartbeat = "fresh"
         /\ nodes' = [nodes EXCEPT ![name].last_heartbeat = "expired"]
    /\ faults' = Disrupt("expire")
    /\ UNCHANGED <<creates, reservation, posted, began, deployments, pods, agents, next_uuid, rec, tp, api,
                   scheduling_strategy, phase>>

\* sync_pod_statuses finds the container of a pod exited, dead or gone
ContainerExits ==
    /\ phase = "open"
    /\ faults["exit"] > 0
    /\ \E n \in NodeNames :
         \E p \in DOMAIN agents[n] :
            /\ agents[n][p].status \in {"Running", "Creating"}
            /\ agents' = [agents EXCEPT ![n][p].status = "Failed"]
    /\ faults' = Disrupt("exit")
    /\ UNCHANGED <<creates, reservation, posted, began, deployments, pods, nodes, next_uuid, rec, tp, api,
                   scheduling_strategy, phase>>

\* the POST /pods of a bind reaches the agent once more (a retry, or a
\* request the network delivered twice)
RepeatedCreate ==
    /\ phase = "open"
    /\ \E p \in DOMAIN pods, run_ok \in BOOLEAN :
         LET n == pods[p].node_name
             req == [pod_id |-> p, name |-> pods[p].name,
                     resources |-> pods[p].resources]
             answer == agent_create_pod(agents[n], req, run_ok)
         IN  /\ n # None
             /\ pods[p].status # "Pending"
             /\ ~(rec.pc = "bind_call" /\ rec.bind.pod_id = p)
             /\ agents' = [agents EXCEPT ![n] = answer.pods]
             /\ posted' = [node_name |-> n, pod_id |-> p,
                           known |-> p \in DOMAIN agents[n],
                           code |-> answer.code,
                           run_container |-> answer.run_container]
    /\ UNCHANGED <<creates, reservation, began, deployments, pods, nodes, next_uuid, rec, tp, api,
                   scheduling_strategy, phase, faults>>

\* the operators and the faults stop
Settle ==
    /\ phase = "open"
    /\ phase' = "steady"
    /\ UNCHANGED <<creates, reservation, posted, began, deployments, pods, nodes, agents, next_uuid, rec, tp, api,
                   scheduling_strategy, faults>>

\* the rest of DELETE /pods/{id}
PodTermination == ApiTerminateNext \/ TerminateStep("api")

ApiTask == TerminateDeploymentList \/ PodTermination

Environment ==
    \/ CreateDeployment
    \/ UpdateDeployment
    \/ DeleteDeployment
    \/ DeletePod
    \/ RegisterNode
    \/ DeleteNode
    \/ NodeHeartbeat
    \/ HeartbeatExpires
    \/ ContainerExits

Next == Reconciler \/ ApiTask \/ Environment

Spec == Init /\ [][Next]_vars

-----------------------------------------------------------------------------
(* Narrower worlds with a larger budget *)

\* a cluster of one worker: a rollout with a DELETE /pods/{id} coming in while
\* the reconciler works
ApiEnvironment ==
    \/ CreateDeployment
    \/ UpdateDeployment
    \/ DeletePod
    \/ Register(NodeOrder[1])
    \/ NodeHeartbeat

ApiNext == ReconcilerSteps \/ PodTermination \/ ApiEnvironment

ApiSpec == InitWith({OneOfEach({"update", "delete_pod"})}) /\ [][ApiNext]_vars

\* the reconcile loop ticks forever and every step of a tick ends
\* one deployment updated once and one DELETE /pods, on one worker whose agent
\* sends no heartbeat yet; the interval loop keeps ticking and the handler
\* runs to its end
ApiLiveEnvironment ==
    \/ CreateDeployment
    \/ UpdateDeployment
    \/ DeletePod
    \/ Register(NodeOrder[1])

ApiLiveNext == ReconcilerSteps \/ PodTermination \/ ApiLiveEnvironment

ApiFairness == WF_vars(ReconcilerSteps) /\ WF_vars(PodTermination)

ApiLiveSpec ==
    InitWith({OneOfEach({"update", "delete_pod"})})
        /\ [][ApiLiveNext]_vars /\ ApiFairness

\* one deployment, deleted once and not created again, on one worker
DeleteEnvironment ==
    \/ faults["delete_deployment"] > 0 /\ CreateDeployment
    \/ DeleteDeployment
    \/ Register(NodeOrder[1])
    \/ NodeHeartbeat

\* the steps of the reconciler when no deployment is ever updated: it has no
\* pod to retire
ScaleUpSteps ==
    \/ Tick
    \/ ListDeployments
    \/ ReconcileDeployment
    \/ CheckRollingUpdateStatus
    \/ ReconcileNormal
    \/ CreatePod
    \/ AddPod
    \/ SchedulePendingPods
    \/ BuildNodeCache
    \/ ScheduleNone
    \/ ScheduleBind
    \/ BindCall
    \/ BindResult
    \/ CleanupList
    \/ CleanupDelete

DeleteNext == ScaleUpSteps \/ ApiTask \/ DeleteEnvironment

\* the interval loop keeps ticking and an API handler runs to its end
TaskFairness == WF_vars(ScaleUpSteps) /\ WF_vars(ApiTask)

DeleteSpec ==
    InitWith({OneOfEach({"delete_deployment"})})
        /\ [][DeleteNext]_vars /\ TaskFairness

\* one deployment updated once, one heartbeat timeout
HealthEnvironment ==
    \/ CreateDeployment
    \/ UpdateDeployment
    \/ RegisterNode
    \/ NodeHeartbeat
    \/ HeartbeatExpires

HealthNext == Reconciler \/ HealthEnvironment

HealthSpec == InitWith({OneOfEach({"update", "expire"})}) /\ [][HealthNext]_vars

\* a rollout with failing agent calls, on a worker that gets some POST /pods twice
AgentEnvironment ==
    \/ CreateDeployment
    \/ UpdateDeployment
    \/ Register(NodeOrder[1])
    \/ RepeatedCreate

AgentNext == ReconcilerSteps \/ AgentEnvironment

AgentSpec == InitWith({OneOfEach({"update", "call"})}) /\ [][AgentNext]_vars

Fairness == WF_vars(ReconcilerSteps)

\* one update of a deployment, then the cluster is left alone
RolloutEnvironment ==
    \/ CreateDeployment
    \/ UpdateDeployment
    \/ RegisterNode
    \/ NodeHeartbeat
    \/ Settle

RolloutNext == ReconcilerSteps \/ RolloutEnvironment

RolloutSpec == InitWith({OneOfEach({"update"})}) /\ [][RolloutNext]_vars /\ Fairness

\* an update and the removal of a node, then the cluster is left alone
ScaleEnvironment ==
    \/ CreateDeployment
    \/ UpdateDeployment
    \/ RegisterNode
    \/ DeleteNode
    \/ NodeHeartbeat
    \/ Settle

ScaleNext == ReconcilerSteps \/ ScaleEnvironment

ScaleSpec ==
    InitWith({OneOfEach({"update", "delete_node"})}) /\ [][ScaleNext]_vars /\ Fairness

\* every tick runs to its end before the next request or event arrives: an
\* update, a heartbeat timeout and an exited container, between the ticks
TickAloneNext ==
    \/ Reconciler
    \/ /\ rec.pc = "idle"
       /\ \/ CreateDeployment
          \/ UpdateDeployment
          \/ RegisterNode
          \/ NodeHeartbeat
          \/ HeartbeatExpires
          \/ ContainerExits

TickAloneSpec ==
    InitWith({OneOfEach({"update", "expire", "exit"})}) /\ [][TickAloneNext]_vars

\* POST /deployments requests that arrive side by side, each served by a
\* handler of its own
CreateNext == \E h \in Handlers : CreateCheck(h) \/ CreateUpsert(h)

CreateSpec == InitWith({OneOfEach({})}) /\ [][CreateNext]_vars

\* the strategies of the scheduler
SchedulingStrategy == {"FirstFit", "BestFit", "LeastAllocated", "Balanced"}

NodeRank(name) == CHOOSE i \in 1..Len(NodeOrder) : NodeOrder[i] = name

\* two registered workers of one capacity, each running one pod that was
\* posted to its agent directly and that its heartbeats report as used, and
\* the request of the pods the deployment asks for
SchedulerScenarios ==
    {[capacity |-> Res(4000, 4096), used |-> <<Res(3000, 3000), Res(500, 500)>>,
      request |-> Res(500, 512)],
     [capacity |-> Res(1000, 1024), used |-> <<Res(215, 512), Res(210, 512)>>,
      request |-> Res(500, 512)],
     [capacity |-> Res(1000, 1024), used |-> <<Res(600, 600), Res(100, 100)>>,
      request |-> Res(500, 512)]}

\* the pod an agent runs without the master's knowing it
OwnPod(n, resources) ==
    [pod_id |-> 100 + NodeRank(n), name |-> PodName("job", NodeRank(n)),
     resources |-> resources, container_id |-> "container", status |-> "Running"]

\* the cluster after the workers registered and sent a heartbeat and the
\* deployment was created, under any of the strategies
SchedulerInit ==
    /\ \E s \in SchedulerScenarios :
         /\ deployments =
              [d \in DeploymentNames |->
                 [name |-> d, image |-> "nginx:1", replicas |-> MaxReplicas,
                  resources |-> s.request,
                  rolling_update |-> [max_surge |-> 1, max_unavailable |-> 0],
                  revision |-> 1]]
         /\ nodes = [n \in NodeNames |->
                       [NewNode(n, s.capacity) EXCEPT !.used = s.used[NodeRank(n)]]]
         /\ agents = [n \in NodeNames |->
                        100 + NodeRank(n) :> OwnPod(n, s.used[NodeRank(n)])]
    /\ pods = <<>>
    /\ next_uuid = 0
    /\ rec = RecIdle
    /\ tp = [t \in Tasks |-> NoFrame]
    /\ api = ApiIdle
    /\ scheduling_strategy \in SchedulingStrategy
    /\ phase = "open"
    /\ faults = OneOfEach({"call"})
    /\ began = [d \in DeploymentNames |-> -1]
    /\ posted = NoPost
    /\ creates = [h \in Handlers |-> NoCreate]
    /\ reservation = NoReservation

\* the steps of a reconciler that finds no Terminated pod to collect
SchedulerSteps ==
    \/ Tick
    \/ ListDeployments
    \/ ReconcileDeployment
    \/ CheckRollingUpdateStatus
    \/ ReconcileNormal
    \/ CreatePod
    \/ AddPod
    \/ SchedulePendingPods
    \/ BuildNodeCache
    \/ ScheduleNone
    \/ ScheduleBind
    \/ BindCall
    \/ BindResult
    \/ CleanupList

SchedulerNext == SchedulerSteps \/ NodeHeartbeat

SchedulerSpec == SchedulerInit /\ [][SchedulerNext]_vars

\* a deployment on one worker whose agent fails a call or cannot be reached,
\* and sends no heartbeat; the interval loop keeps ticking
BindFailureNext == SchedulerSteps \/ CreateDeployment \/ Register(NodeOrder[1])

BindFailureSpec ==
    InitWith({OneOfEach({"call"})})
        /\ [][BindFailureNext]_vars /\ WF_vars(SchedulerSteps)

\* a cluster in which nothing happens but that a node's heartbeats stop: the
\* deployment is never changed and no call fails
NodeFailureEnvironment ==
    \/ CreateDeployment
    \/ RegisterNode
    \/ NodeHeartbeat
    \/ HeartbeatExpires

NodeFailureNext == SchedulerSteps \/ MarkNotReady \/ NodeFailureEnvironment

NodeFailureSpec == InitWith({OneOfEach({"expire"})}) /\ [][NodeFailureNext]_vars

\* the indices of the three pods a deployment of eleven is left with after
\* eight of its pods were deleted one by one
ScaleDownStores ==
    {ix \in [1..3 -> {0, 1, 2, 9, 10}] : ix[1] < ix[2] /\ ix[2] < ix[3]}

\* one worker runs three pods of the deployment, whose replicas have just been
\* set to less (or left at three)
ScaleDownInit ==
    /\ \E ix \in ScaleDownStores, replicas \in 1..3 :
         /\ deployments =
              [d \in DeploymentNames |->
                 [name |-> d, image |-> "nginx:1", replicas |-> replicas,
                  resources |-> Res(1, 1),
                  rolling_update |-> [max_surge |-> 1, max_unavailable |-> 0],
                  revision |-> 1]]
         /\ pods = [i \in 1..3 |->
                      [from_deployment(deployments["web"], ix[i], i) EXCEPT
                         !.status = "Running", !.node_name = NodeOrder[1],
                         !.container_id = "container"]]
    /\ nodes = [n \in {NodeOrder[1]} |->
                  [NewNode(n, Res(3, 3)) EXCEPT !.used = Res(3, 3)]]
    /\ agents = [n \in NodeNames |->
                   IF n = NodeOrder[1]
                   THEN [i \in 1..3 |->
                           [pod_id |-> i, name |-> pods[i].name,
                            resources |-> pods[i].resources,
                            container_id |-> "container", status |-> "Running"]]
                   ELSE <<>>]
    /\ next_uuid = 3
    /\ rec = RecIdle
    /\ tp = [t \in Tasks |-> NoFrame]
    /\ api = ApiIdle
    /\ scheduling_strategy \in SchedulingStrategies
    /\ phase = "open"
    /\ faults = OneOfEach({})
    /\ began = [d \in DeploymentNames |-> -1]
    /\ posted = NoPost
    /\ creates = [h \in Handlers |-> NoCreate]
    /\ reservation = [p \in 1..MaxPods |-> IF p <= 3 THEN "held" ELSE "none"]

\* the steps of a reconciler that has pods to retire and none to create
ScaleDownSteps ==
    \/ Tick
    \/ ListDeployments
    \/ ReconcileDeployment
    \/ CheckRollingUpdateStatus
    \/ ReconcileNormal
    \/ SelectNormal
    \/ TerminateNext
    \/ TerminateStep("reconciler")
    \/ SchedulePendingPods
    \/ BuildNodeCache
    \/ CleanupList
    \/ CleanupDelete

ScaleDownSpec == ScaleDownInit /\ [][ScaleDownSteps \/ NodeHeartbeat]_vars

-----------------------------------------------------------------------------
(* Claims *)

\* the reconciler waits for a uuid beyond the model's bound
OutOfUuids == rec.pc = "create" /\ next_uuid >= MaxPods

NoOlderActive(d) ==
    ~\E i \in DOMAIN pods :
        /\ pods[i].deployment_name = d
        /\ pods[i].revision < deployments[d].revision
        /\ Active(pods[i])

Converged ==
    \A d \in DOMAIN deployments :
        NoOlderActive(d) => count_active_pods_for_deployment(d) = deployments[d].replicas

\* C1 (scale convergence): once the deployments and the Ready nodes stop
\* changing and every call to an agent succeeds, the ticks reach and then keep
\* count_active = replicas for every deployment without an active pod of an
\* older revision (unless the model ran out of uuids)
C1_ScaleConvergence == (phase = "steady") ~> [](Converged \/ OutOfUuids)

\* the sum of the requests of the pods assigned to node n that hold resources
Assigned(n) ==
    SumResources(pods, {i \in DOMAIN pods : pods[i].node_name = n /\ Active(pods[i])})

\* a Ready node with room for one more pod, in the store's books and in fact
RoomFor(request) ==
    \E n \in DOMAIN nodes :
        /\ nodes[n].status = "Ready"
        /\ can_fit(nodes[n], request)
        /\ fits(subtract(nodes[n].allocatable, Assigned(n)), request)

RolloutStart ==
    /\ "web" \in DOMAIN deployments
    /\ LET d == deployments["web"]
           mine == {i \in DOMAIN pods : Active(pods[i])}
       IN  /\ d.revision = 2
           /\ d.rolling_update = [max_surge |-> 1, max_unavailable |-> 0]
           /\ Cardinality(mine) = d.replicas
           /\ \A i \in mine : pods[i].status = "Running" /\ pods[i].revision = 1
           /\ next_uuid + d.replicas <= MaxPods
           /\ RoomFor(d.resources)

\* the deployment has active pods of a revision older than its own
InRollout(d) == ~NoOlderActive(d)

RetireLoopEnds ==
    /\ rec.pc = "terminate"
    /\ rec.old_total > 0
    /\ rec.pod_ids = <<>>
    /\ tp["reconciler"].pc = "none"

RolloutDone ==
    /\ "web" \in DOMAIN deployments
    /\ NoOlderActive("web")
    /\ count_running_pods_for_revision("web", deployments["web"].revision)
         = deployments["web"].replicas

C6_UniqueNames ==
    \A i, j \in DOMAIN pods :
        (/\ i # j
         /\ pods[i].deployment_name = pods[j].deployment_name
         /\ Active(pods[i])
         /\ Active(pods[j])) => pods[i].name # pods[j].name

\* C7: every pod of the store that is Running or Creating has a node
C7_RunningHasNode ==
    \A i \in DOMAIN pods :
        pods[i].status \in {"Running", "Creating"} => pods[i].node_name # None

\* a pod back to Running after a termination its agent refused
C7_Witness ==
    \E i \in DOMAIN pods :
        /\ pods[i].status = "Running"
        /\ pods[i].node_name # None
        /\ i \notin DOMAIN agents[pods[i].node_name]

\* C8: the node of a pod changes from None to a node only; no step gives an
\* assigned pod another node or none
C8_NodeNameStable ==
    [][\A i \in DOMAIN pods :
          (i \in DOMAIN pods' /\ pods[i].node_name # None)
              => pods'[i].node_name = pods[i].node_name]_vars

\* a pod that keeps its node after the node left the store
C8_Witness ==
    \E i \in DOMAIN pods :
        /\ pods[i].status = "Running"
        /\ pods[i].node_name # None
        /\ pods[i].node_name \notin DOMAIN nodes

\* C9 (resource accounting): at the end of a tick, no call to an agent in
\* flight, the `used` of every node is the sum of the requests of the pods
\* assigned to it that are neither Failed nor Terminated
C9_ResourceAccounting ==
    (rec.pc = "idle" /\ tp["api"].pc = "none")
        => \A n \in DOMAIN nodes : nodes[n].used = Assigned(n)

\* C10 (no in-cycle overcommit): in a scheduling pass, what is bound to a node
\* and not released again stays within the availability the pass began with
C10_NoOvercommit ==
    \A k \in 1..Len(rec.node_cache) :
        fits(rec.node_cache[k].snapshot, rec.node_cache[k].bound)

\* a node filled to its snapshot within one pass
C10_Witness ==
    \E k \in 1..Len(rec.node_cache) :
        /\ rec.node_cache[k].bound = rec.node_cache[k].snapshot
        /\ rec.node_cache[k].bound.cpu_millis >= 2
        /\ rec.unassigned # {}

-----------------------------------------------------------------------------
\* C11 (termination idempotence): a call of terminate_pod on a pod that an
\* earlier call left Terminated, the pod still in the store, ends with the pod
\* Terminated again and deallocates nothing: twice is the same as once
C11_TerminationIdempotence ==
    [][\A t \in Tasks :
          (tp[t].pc # "none" /\ tp[t].began_terminated)
              => /\ tp'[t].pc # "dealloc"
                 /\ (tp'[t].pc = "none" /\ tp[t].pod_id \in DOMAIN pods')
                        => pods'[tp[t].pod_id].status = "Terminated"]_vars

\* the node is in the store and has sent no heartbeat since its timeout
Silent(n) == n \in DOMAIN nodes /\ nodes[n].last_heartbeat = "expired"

\* check_node_health of the running tick is done with node n
HealthChecked(n) ==
    \/ rec.pc \notin {"idle", "health"}
    \/ rec.pc = "health" /\ n \notin rec.stale

\* C12 (heartbeat liveness): a node found past the timeout by the tick's
\* check_node_health, silent since, is NotReady once that check is done with it
\* (the tick after the timeout at the latest); and a NotReady node leaves that
\* status only by a heartbeat or a registration, never by the reconciler
C12_HeartbeatLiveness ==
    /\ [](\A n \in rec.overdue :
            (HealthChecked(n) /\ Silent(n)) => nodes[n].status = "NotReady")
    /\ [][\A n \in DOMAIN nodes :
            (nodes[n].status = "NotReady" /\ n \in DOMAIN nodes'
                /\ nodes'[n].status # "NotReady")
                => (nodes'[n].last_heartbeat = "fresh" /\ rec' = rec)]_vars

\* a node timed out, marked NotReady by the tick, and still silent
C12_Witness ==
    \E n \in rec.overdue :
        /\ HealthChecked(n)
        /\ Silent(n)
        /\ nodes[n].status = "NotReady"
        /\ rec.pc = "bind_call"

C14_DeploymentDeletion ==
    \A d \in DeploymentNames :
        (d \notin DOMAIN deployments /\ api.pc = "idle")
            ~> (list_pods_for_deployment(d) = {})

\* C15 (API writes intent): the handler of DELETE /pods/{id} sets the pod
\* Terminating and no more: no step of the handler's task reaches an agent,
\* deallocates on a node or sets a pod Terminated
C15_ApiWritesIntent ==
    [][(tp["api"].pc # "none" /\ tp'["api"] # tp["api"])
          => /\ agents' = agents
             /\ nodes' = nodes
             /\ \A p \in DOMAIN pods \cap DOMAIN pods' :
                   pods'[p].status = "Terminated" => pods[p].status = "Terminated"]_vars

\* the agent has answered 404 to the DELETE of task t: the call was made (the
\* node is in the store), no call fails in transit, and the deletion did not
\* succeed; the agent holds no pod of that name and no bind is about to
\* create the pod there
Refused(t) ==
    /\ tp[t].pc = "final"
    /\ ~tp[t].node_deletion_succeeded
    /\ tp[t].node_name \in DOMAIN nodes
    /\ \A i \in DOMAIN agents[tp[t].node_name] :
          agents[tp[t].node_name][i].name # tp[t].name
    /\ ~(rec.pc \in {"bind_call", "bind_result"} /\ rec.bind.pod_id = tp[t].pod_id)
    /\ faults["call"] = 0

\* C16 (delete of a pod the agent no longer holds): a pod whose DELETE the
\* agent answered with 404 does not stay in the store: it is terminated and
\* collected in the ticks that follow
C16_MissingPodCollected ==
    \A p \in 1..MaxPods :
        (\E t \in Tasks : Refused(t) /\ tp[t].pod_id = p) ~> (p \notin DOMAIN pods)

\* the entries of the pass's cache whose availability fits the request of pod p
Fitting(p) ==
    {k \in 1..Len(rec.node_cache) : fits(rec.node_cache[k].available, pods[p].resources)}

\* the pods the scheduling pass takes up in this step
TakenUp == IF rec.pc = "schedule" THEN rec.unassigned \ rec'.unassigned ELSE {}

\* C17 (no suitable node): every pass takes up all Pending pods without a node;
\* a pod that no entry of the cache fits is left as it is, Pending and without a
\* node, with no reservation, no allocation and no call to an agent; a pod that
\* an entry fits is bound to such a node in that pass, and is Running once the
\* agent has answered the call with success
C17_NoSuitableNode ==
    /\ [](rec.pc = "cache"
            => \A p \in DOMAIN pods :
                  (pods[p].status = "Pending" /\ pods[p].node_name = None)
                      => p \in rec.unassigned)
    /\ [][\A p \in TakenUp \cap DOMAIN pods :
            IF Fitting(p) = {}
            THEN /\ pods' = pods
                 /\ nodes' = nodes
                 /\ agents' = agents
                 /\ rec'.node_cache = rec.node_cache
                 /\ rec'.pc = "schedule"
            ELSE /\ rec'.pc = "bind_call"
                 /\ pods'[p].status = "Creating"
                 /\ \E k \in Fitting(p) : pods'[p].node_name = rec.node_cache[k].name]_vars
    /\ [][(rec.pc = "bind_result" /\ rec.response = "ok" /\ rec'.pc # "bind_result"
             /\ rec.bind.pod_id \in DOMAIN pods)
            => pods'[rec.bind.pod_id].status = "Running"]_vars

\* a pass with a Ready node in its cache has left a pod Pending for lack of room
C17_Witness ==
    /\ rec.pc = "schedule"
    /\ Len(rec.node_cache) > 0
    /\ \E p \in DOMAIN pods :
          /\ pods[p].status = "Pending"
          /\ pods[p].node_name = None
          /\ p \notin rec.unassigned
          /\ Fitting(p) = {}

\* C18 (POST /deployments error outcomes): a request with an empty name or an
\* empty image is answered 400, a request with the name of a deployment of the
\* store 409, and both leave the deployments of the store as they are
C18_CreateErrors ==
    \A req \in CreateRequests :
        LET answer == create_deployment(req)
        IN  /\ (req.name = "" \/ req.image = "")
                  => (answer.code = 400 /\ answer.deployments = deployments)
            /\ (req.name # "" /\ req.image # "" /\ req.name \in DOMAIN deployments)
                  => (answer.code = 409 /\ answer.deployments = deployments)

\* a deployment that a PUT has changed, so that a second POST of its name, were
\* it to write, would change image, replicas or revision
C18_Witness ==
    \E req \in CreateRequests :
        /\ create_deployment(req).code = 409
        /\ deployments[req.name].revision = 2
        /\ deployments[req.name].image # req.image
        /\ deployments[req.name].replicas # req.replicas

CallStep ==
    \/ rec.pc = "bind_call" /\ rec' # rec
    \/ \E t \in Tasks : tp[t].pc = "call" /\ tp'[t] # tp[t]

\* a step of the reconciler or of a terminate_pod frame that writes the store
StoreWriteStep ==
    /\ rec' # rec \/ tp' # tp
    /\ <<deployments, pods, nodes>>' # <<deployments, pods, nodes>>

\* C20 (no store write lock over an agent call): the step in which a
\* master-to-agent call is in flight writes nothing to the store, and no step
\* of bind_pod_to_node, terminate_pod or an API handler that writes the store
\* reaches an agent: the store writes are steps of their own, between which
\* and during the call other tasks read and write the store
C20_NoLockOverCall ==
    /\ [][CallStep => UNCHANGED <<deployments, pods, nodes>>]_vars
    /\ [][StoreWriteStep => (agents' = agents /\ ~CallStep)]_vars

\* the reconciler's POST /pods is pending and the pod it set Creating has
\* meanwhile been set Terminating by the API task's terminate_pod, which is
\* itself waiting for its DELETE at the agent
C20_Witness ==
    /\ rec.pc = "bind_call"
    /\ rec.bind.pod_id \in DOMAIN pods
    /\ pods[rec.bind.pod_id].status = "Terminating"
    /\ tp["api"].pc = "call"
    /\ tp["api"].pod_id = rec.bind.pod_id

-----------------------------------------------------------------------------
\* the step of bind_pod_to_node that follows a failed agent call
BindFailed == rec.pc = "bind_result" /\ rec.response = "failed" /\ rec' # rec

\* C21 (bind failure rollback): when the agent's create call for a pod fails,
\* the pod becomes Failed, the chosen node's used in the store is again what it
\* was before the bind, and the cache entry's available is again what it was
\* before the reservation
C21_BindRollback ==
    [][BindFailed =>
          /\ rec.bind.pod_id \in DOMAIN pods'
                => pods'[rec.bind.pod_id].status = "Failed"
          /\ rec.bind.node_name \in DOMAIN nodes'
                => nodes'[rec.bind.node_name].used = rec.bind.used_before
          /\ \A k \in 1..Len(rec'.node_cache) :
                rec'.node_cache[k].name = rec.bind.node_name
                  => rec'.node_cache[k].available = rec.bind.available_before]_vars

-----------------------------------------------------------------------------
RECURSIVE Gcd(_, _)
Gcd(a, b) == IF b = 0 THEN a ELSE Gcd(b, a % b)

\* the fraction num/den in lowest terms
Fraction(num, den) ==
    LET g == Gcd(num, den) IN [num |-> num \div g, den |-> den \div g]

\* the remaining share after the request, in percent, as an exact fraction
ExactPct(avail, cap, req) ==
    IF cap > 0 THEN Fraction(100 * saturating_sub(avail, req), cap)
    ELSE Fraction(0, 1)

\* the score the strategy's formula gives, as an i64: the formula's exact
\* value, truncated
FormulaScore(strategy, entry, request) ==
    LET c == ExactPct(entry.available.cpu_millis, entry.capacity.cpu_millis,
                      request.cpu_millis)
        m == ExactPct(entry.available.memory_mb, entry.capacity.memory_mb,
                      request.memory_mb)
        sum == c.num * m.den + m.num * c.den
        gap == IF c.num * m.den >= m.num * c.den
               THEN c.num * m.den - m.num * c.den
               ELSE m.num * c.den - c.num * m.den
        den == c.den * m.den
    IN  CASE strategy = "FirstFit" -> 0
          [] strategy = "BestFit" -> (200 * den - sum) \div den
          [] strategy = "LeastAllocated" -> sum \div den
          [] strategy = "Balanced" -> (10 * sum - 3 * gap) \div (10 * den)

\* the step of schedule_pending_pods that chooses a node for a pod
ChoosesNode == rec.pc = "schedule" /\ rec'.pc = "bind_call"

\* the node of the cache entries that fit the request with the highest
\* formula score, the first by name among equals (None: no entry fits)
FormulaChoice(strategy, cache, request) ==
    LET ok == {k \in 1..Len(cache) : fits(cache[k].available, request)}
        sc(k) == FormulaScore(strategy, cache[k], request)
    IN  IF ok = {} THEN None
        ELSE LET k == CHOOSE x \in ok :
                        /\ \A j \in ok : sc(j) <= sc(x)
                        /\ \A j \in ok : sc(j) = sc(x) =>
                              NodeRank(cache[x].name) <= NodeRank(cache[j].name)
             IN  cache[k].name

\* the cache of the example: w1 available {1000, 1096}, w2 available
\* {3500, 3596}, both of capacity {4000, 4096}
ExampleCache(cache) ==
    /\ Len(cache) = 2
    /\ cache[1].name = "w1" /\ cache[1].available = Res(1000, 1096)
    /\ cache[2].name = "w2" /\ cache[2].available = Res(3500, 3596)
    /\ \A k \in 1..2 : cache[k].capacity = Res(4000, 4096)

\* C22 (node selection): a pending pod is bound to the Ready node that has,
\* among the cache entries whose available resources fit the request, the
\* highest score of the configured strategy's formula, the first in ascending
\* name order among equals; in the example FirstFit and BestFit pick w1,
\* LeastAllocated and Balanced pick w2
C22_NodeSelection ==
    [][ChoosesNode =>
          /\ rec'.bind.node_name \in DOMAIN nodes
          /\ nodes[rec'.bind.node_name].status = "Ready"
          /\ rec'.bind.node_name =
                FormulaChoice(scheduling_strategy, rec.node_cache, rec'.bind.resources)
          /\ (ExampleCache(rec.node_cache) /\ rec'.bind.resources = Res(500, 512))
                => rec'.bind.node_name =
                      IF scheduling_strategy \in {"FirstFit", "BestFit"}
                      THEN "w1" ELSE "w2"]_vars

-----------------------------------------------------------------------------
\* the last step of a terminate_pod of task t whose DELETE failed: the pod
\* had a node, the node is in the store (so the call was made), and the call
\* did not succeed
FailedTermination(t) ==
    /\ tp[t].pc = "final"
    /\ tp'[t] # tp[t]
    /\ tp[t].node_name # None
    /\ tp[t].node_name \in DOMAIN nodes
    /\ ~tp[t].node_deletion_succeeded

\* a step of a terminate_pod of task t that has no successful DELETE behind it
UnsuccessfulStep(t) ==
    /\ tp[t].pc # "none"
    /\ tp'[t] # tp[t]
    /\ tp[t].node_name # None
    /\ ~tp[t].node_deletion_succeeded

\* the garbage collection removes pod p in this step
Collected(p) == rec.pc = "cleanup" /\ rec' # rec /\ p \in DOMAIN pods \ DOMAIN pods'

\* C23 (failed termination): when the agent's DELETE of a terminate_pod for a
\* pod with a node fails, the pod is in the store with status Running when the
\* call ends, no step of the call changes the used resources of a node, and
\* the garbage collection does not remove the pod: it is not on the list the
\* collection is about to delete
C23_FailedTermination ==
    /\ [][\A t \in Tasks :
            FailedTermination(t) =>
               /\ tp[t].pod_id \in DOMAIN pods'
               /\ pods'[tp[t].pod_id].status = "Running"
               /\ ~(rec.pc = "cleanup" /\ tp[t].pod_id \in rec.terminated)]_vars
    /\ [][\A t \in Tasks : UnsuccessfulStep(t) => nodes' = nodes]_vars

-----------------------------------------------------------------------------
\* a step of the terminate_pod of task t
FrameStep(t) == tp[t].pc # "none" /\ tp'[t] # tp[t]

\* used less the request, no lower than 0
Reduced(used, resources) ==
    Res(saturating_sub(used.cpu_millis, resources.cpu_millis),
        saturating_sub(used.memory_mb, resources.memory_mb))

\* C24 (successful termination): a DELETE answered 2xx is followed by the
\* deallocation, which takes exactly the pod's resources off the used of the
\* pod's node, no lower than 0, and changes no other node; the call then ends
\* with the pod Terminated; the termination of a pod without a node reaches no
\* agent, changes no node and ends with the pod Terminated
C24_SuccessfulTermination ==
    /\ [][\A t \in Tasks :
            (FrameStep(t) /\ tp[t].pc = "call" /\ tp'[t].node_deletion_succeeded)
               => tp'[t].pc = "dealloc"]_vars
    /\ [][\A t \in Tasks :
            (FrameStep(t) /\ tp[t].pc = "dealloc") =>
               /\ DOMAIN nodes' = DOMAIN nodes
               /\ \A n \in DOMAIN nodes :
                     nodes'[n] =
                        IF n = tp[t].node_name
                        THEN [nodes[n] EXCEPT
                                !.used = Reduced(@, pods[tp[t].pod_id].resources)]
                        ELSE nodes[n]]_vars
    /\ [][\A t \in Tasks :
            (FrameStep(t) /\ tp[t].pc = "final" /\ tp[t].node_deletion_succeeded)
               => pods'[tp[t].pod_id].status = "Terminated"]_vars
    /\ [][\A t \in Tasks :
            (FrameStep(t) /\ tp[t].node_name = None) =>
               /\ nodes' = nodes
               /\ agents' = agents
               /\ tp'[t].pc \in {"final", "none"}]_vars

\* a termination whose DELETE succeeded is about to write Terminated, after
\* the deallocation that left the used of the pod's node at 0
C24_Witness ==
    \E t \in Tasks :
        /\ tp[t].pc = "final"
        /\ tp[t].node_deletion_succeeded
        /\ tp[t].node_name \in DOMAIN nodes
        /\ tp[t].pod_id \in DOMAIN pods
        /\ pods[tp[t].pod_id].status = "Terminating"
        /\ nodes[tp[t].node_name].used = Res(0, 0)

-----------------------------------------------------------------------------
\* the write of cleanup_terminated_pods
CollectionStep == rec.pc = "cleanup" /\ rec' # rec

\* C25 (garbage collection): the collection at the end of a tick removes from
\* the store exactly the pods whose status is Terminated when it runs, leaves
\* every other pod as it is, and changes no deployment and no node
C25_GarbageCollection ==
    [][CollectionStep =>
          /\ DOMAIN pods' = {p \in DOMAIN pods : pods[p].status # "Terminated"}
          /\ \A p \in DOMAIN pods' : pods'[p] = pods[p]
          /\ UNCHANGED <<deployments, nodes>>]_vars

-----------------------------------------------------------------------------
\* the write of check_node_health for a node past the timeout
MarksNotReady(n) == rec.pc = "health" /\ n \in rec.stale /\ n \notin rec'.stale

\* node n is in the store and NotReady
NotReady(n) == n \in DOMAIN nodes /\ nodes[n].status = "NotReady"

\* C26 (node failure leaves pods alone): the health check's write changes the
\* status of the one node and nothing else in the store; as long as the node
\* stays NotReady its used and every pod assigned to it stay as they are; the
\* scheduler's cache holds no NotReady node and no pod is bound to one; and
\* where nothing else happens to the cluster, no pod is created beyond the
\* deployment's replicas and none is terminated
C26_NodeFailure ==
    /\ [][\A n \in NodeNames :
            MarksNotReady(n) =>
               /\ nodes' = [nodes EXCEPT ![n].status = "NotReady"]
               /\ UNCHANGED <<deployments, pods, agents>>]_vars
    /\ [][\A n \in NodeNames :
            (NotReady(n) /\ n \in DOMAIN nodes' /\ nodes'[n].status = "NotReady") =>
               /\ nodes'[n].used = nodes[n].used
               /\ \A p \in DOMAIN pods :
                     pods[p].node_name = n => (p \in DOMAIN pods' /\ pods'[p] = pods[p])
               /\ \A p \in DOMAIN pods' :
                     pods'[p].node_name = n => p \in DOMAIN pods]_vars
    /\ [][rec'.pc = "schedule" =>
            \A k \in 1..Len(rec'.node_cache) : ~NotReady(rec'.node_cache[k].name)]_vars
    /\ [][ChoosesNode => ~NotReady(rec'.bind.node_name)]_vars
    /\ [](\A d \in DOMAIN deployments :
            /\ next_uuid <= deployments[d].replicas
            /\ \A p \in DOMAIN pods : pods[p].status \notin {"Terminating", "Terminated"})

\* w1 has been marked NotReady while a pod runs on it; w2 is Ready, and the
\* scheduling pass that follows has built its cache
C26_Witness ==
    /\ NotReady("w1")
    /\ \E p \in DOMAIN pods : pods[p].node_name = "w1" /\ pods[p].status = "Running"
    /\ "w2" \in DOMAIN nodes
    /\ nodes["w2"].status = "Ready"
    /\ rec.pc = "schedule"
    /\ Len(rec.node_cache) = 1

-----------------------------------------------------------------------------
\* a step of the heartbeat handler that changes the store: no task moves and
\* no agent changes
HeartbeatStep ==
    /\ UNCHANGED <<rec, tp, api, agents, deployments, faults>>
    /\ pods' # pods \/ nodes' # nodes

\* the pod as agent n reports it overwrites the master's pod p
Copied(p, n) ==
    /\ p \in DOMAIN agents[n]
    /\ pods'[p] = [pods[p] EXCEPT
                     !.status = agents[n][p].status,
                     !.container_id = IF agents[n][p].container_id # None
                                      THEN agents[n][p].container_id ELSE @]

\* C27 (heartbeat pod-status merge): a heartbeat removes and adds no pod; a pod
\* whose status in the store is Terminated or Terminating keeps its status and
\* its container_id; any other pod is either left as it is or takes the status
\* and the container_id that the agent reports for it
C27_HeartbeatMerge ==
    [][HeartbeatStep =>
          /\ DOMAIN pods' = DOMAIN pods
          /\ \A p \in DOMAIN pods :
                IF pods[p].status \in {"Terminated", "Terminating"}
                THEN pods'[p] = pods[p]
                ELSE pods'[p] = pods[p] \/ \E n \in NodeNames : Copied(p, n)]_vars

-----------------------------------------------------------------------------
\* the pods the step adds to the store
Added == DOMAIN pods' \ DOMAIN pods

\* the indices i for which the name of index i of deployment d is not the
\* name of a pod of d that is neither Terminated nor Failed
FreeIndices(d) ==
    {i \in 0..MaxPods :
        \A p \in DOMAIN pods :
            (pods[p].deployment_name = d /\ pods[p].status \notin {"Terminated", "Failed"})
               => pods[p].name # PodName(d, i)}

\* C28 (scale-up naming): a pod that the reconciler creates for a deployment
\* has the smallest index whose name no active pod of the deployment has when
\* it is created, so that the k pods of a scale-up take the k smallest free
\* indices; the pod starts Pending, with no node, at the revision of the
\* deployment it is created from
C28_ScaleUpNaming ==
    [][\A q \in Added :
          /\ pods'[q].status = "Pending"
          /\ pods'[q].node_name = None
          /\ pods'[q].deployment_name = rec.deployment.name
          /\ pods'[q].revision = rec.deployment.revision
          /\ \E i \in FreeIndices(rec.deployment.name) :
                /\ pods'[q].name = PodName(rec.deployment.name, i)
                /\ \A j \in FreeIndices(rec.deployment.name) : i <= j]_vars

-----------------------------------------------------------------------------
\* the read of get_pods_to_terminate in a scale-down
SelectsPods == rec.pc = "select_normal" /\ rec' # rec

\* the index in a pod's name
IndexOf(p) == pods[p].name[2]

\* C29 (scale-down order): the pods a scale-down selects are k pods of the
\* deployment, none of them Terminated, Terminating or Failed, k being the
\* excess of the active pods over the replicas; they are the k pods of
\* highest index among those that can be selected, the highest first, so that
\* the pods of lowest index stay
C29_ScaleDownOrder ==
    [][SelectsPods =>
          LET ids == rec'.pod_ids
              d == rec.deployment.name
              chosen == {ids[i] : i \in 1..Len(ids)}
              candidates == {p \in DOMAIN pods :
                               /\ pods[p].deployment_name = d
                               /\ pods[p].status \notin
                                     {"Terminated", "Terminating", "Failed"}}
          IN  /\ Len(ids) = rec.can_terminate
              /\ Cardinality(chosen) = Len(ids)
              /\ chosen \subseteq candidates
              /\ \A p \in chosen : \A q \in candidates \ chosen : IndexOf(p) > IndexOf(q)
              /\ \A i, j \in 1..Len(ids) : i < j => IndexOf(ids[i]) > IndexOf(ids[j])]_vars

-----------------------------------------------------------------------------
\* the requests the allocation is tried with: a deployment that names no
\* resources requests {0, 0}
AllocationRequests == {Res(c, m) : c \in 0..2, m \in 0..2}

Plus(a, b) == Res(a.cpu_millis + b.cpu_millis, a.memory_mb + b.memory_mb)

\* the allocation of request r on node n, in the store as it is: whether it
\* is refused when it must be, and what a refused one, a granted one and a
\* deallocation do, but for the bound on used
AllocationAlgebra(n, r) ==
    LET after == allocate_resources_on_node(nodes, n, r)
        granted == allocate_resources_on_node_returns(nodes, n, r)
        unfit == \/ n \notin DOMAIN nodes
                 \/ ~fits(subtract(nodes[n].allocatable, nodes[n].used), r)
    IN  /\ unfit => ~granted
        /\ ~granted => after = nodes
        /\ granted =>
              /\ after[n].used = Plus(nodes[n].used, r)
              /\ deallocate_resources_on_node(after, n, r) = nodes
        /\ n \in DOMAIN nodes =>
              /\ deallocate_resources_on_node(nodes, n, r)[n].used.cpu_millis >= 0
              /\ deallocate_resources_on_node(nodes, n, r)[n].used.memory_mb >= 0

\* node n is used beyond its allocatable cpu or memory
OverCommitted(n) ==
    \/ nodes[n].used.cpu_millis > nodes[n].allocatable.cpu_millis
    \/ nodes[n].used.memory_mb > nodes[n].allocatable.memory_mb

-----------------------------------------------------------------------------
\* the active pods of deployment d with a revision below r
ActiveOlder(d, r) ==
    {i \in DOMAIN pods :
        pods[i].deployment_name = d /\ pods[i].revision < r /\ Active(pods[i])}

\* the reconciler leaves check_rolling_update_status
StatusChecked == rec.pc = "status" /\ rec'.pc # "status"

\* C31 (rolling-update detection): get_old_revision_pods(d, r) is exactly the
\* set of the pods of d with a revision below r whose status is neither
\* Terminated nor Failed, and the reconciler takes the rolling-update path for
\* d exactly when that set is not empty for the revision of d it reconciles
C31_RollingUpdateDetection ==
    /\ [](\A d \in DeploymentNames : \A r \in 1..(MaxRevision + 1) :
            get_old_revision_pods(d, r) = ActiveOlder(d, r))
    /\ [][StatusChecked =>
            (rec'.pc = "rolling" <=>
                ActiveOlder(rec.deployment.name, rec.deployment.revision) # {})]_vars

-----------------------------------------------------------------------------
\* every deployment has `replicas` active pods, all Running at its revision;
\* no Pending pod waits for a node, no pod is Terminated, every heartbeat is
\* fresh
ConvergedStore ==
    /\ \A d \in DOMAIN deployments :
          LET active == {i \in list_pods_for_deployment(d) : Active(pods[i])}
          IN  /\ Cardinality(active) = deployments[d].replicas
              /\ \A i \in active :
                    /\ pods[i].revision = deployments[d].revision
                    /\ pods[i].status = "Running"
    /\ \A i \in DOMAIN pods :
          /\ ~(pods[i].status = "Pending" /\ pods[i].node_name = None)
          /\ pods[i].status # "Terminated"
    /\ \A n \in DOMAIN nodes : nodes[n].last_heartbeat = "fresh"

\* the reconciler is about to create, terminate, bind or delete a pod
Acting ==
    \/ rec.pc \in {"create", "add", "bind_call", "bind_result", "cleanup"}
    \/ rec.pc = "terminate" /\ rec.pod_ids # <<>>

\* C32 (idempotent tick): a step of a reconcile tick in a converged store
\* leaves the deployments, the pods and the nodes as they are, hands out no
\* uuid, starts no terminate_pod and sends no request to an agent
C32_IdempotentTick ==
    [][(ConvergedStore /\ rec' # rec) =>
          /\ UNCHANGED <<deployments, pods, nodes, agents, next_uuid, tp>>
          /\ ~Acting'
          /\ rec'.stale = {}
          /\ rec'.unassigned = {}]_vars

\* a tick has gone through a converged store with a deployment of at least a
\* pod and reads the pods to collect
C32_Witness ==
    /\ ConvergedStore
    /\ rec.pc = "schedule"
    /\ \E d \in DOMAIN deployments : deployments[d].replicas > 0
    /\ \E n \in DOMAIN nodes : nodes[n].used # Res(0, 0)

-----------------------------------------------------------------------------
\* C33 (no resurrection): a pod that is Terminated in the store stays
\* Terminated until the garbage collection removes it, whatever bind or
\* terminate_pod call is under way for it
C33_NoResurrection ==
    [][\A p \in DOMAIN pods :
          pods[p].status = "Terminated" =>
              (p \in DOMAIN pods' => pods'[p].status = "Terminated")]_vars

-----------------------------------------------------------------------------
\* C34 (Failed is final): a pod that is Failed in the store never becomes
\* Pending, Creating, Running, Succeeded or Terminating again
C34_FailedIsFinal ==
    [][\A p \in DOMAIN pods :
          pods[p].status = "Failed" =>
              (p \in DOMAIN pods' => pods'[p].status \in {"Failed", "Terminated"})]_vars

-----------------------------------------------------------------------------
\* terminate_pod of task t deallocates the resources of a pod of the store
TerminationReleases(t) ==
    /\ tp[t].pc = "dealloc" /\ tp'[t].pc = "final"
    /\ tp[t].node_name \in DOMAIN nodes
    /\ tp[t].pod_id \in DOMAIN pods

\* mark_pod_failed deallocates the resources of a pod of the store
FailedBindReleases ==
    /\ rec.pc = "bind_result" /\ rec.response = "failed" /\ rec'.pc = "schedule"
    /\ rec.bind.node_name \in DOMAIN nodes
    /\ rec.bind.pod_id \in DOMAIN pods

\* C35 (single release per reservation): the master deallocates the resources
\* of a pod only while it holds an allocation that succeeded for the pod and
\* that it has not deallocated yet, also when a pod that a failed bind marked
\* Failed is terminated later
C35_SingleRelease ==
    /\ [][\A t \in Tasks :
            TerminationReleases(t) => reservation[tp[t].pod_id] = "held"]_vars
    /\ [][FailedBindReleases => reservation[rec.bind.pod_id] = "held"]_vars

-----------------------------------------------------------------------------
\* bind_pod_to_node sets a pod Creating on a node and goes on to the POST
BindsPod == rec.pc = "schedule" /\ rec'.pc = "bind_call"

\* C36 (bind commits its reservation): whenever bind_pod_to_node sets a pod
\* Creating on node n and sends the create request, the allocation for the pod
\* on n has succeeded: n is in the store and its used has grown by the pod's
\* resources
C36_BindCommits ==
    [][BindsPod =>
          LET n == rec'.bind.node_name
              r == rec'.bind.resources
          IN  /\ allocate_resources_on_node_returns(nodes, n, r)
              /\ nodes'[n].used = Plus(nodes[n].used, r)]_vars

-----------------------------------------------------------------------------
\* the reconciler adds a pod to the store
AddsPod == rec.pc = "add" /\ next_uuid' = next_uuid + 1

\* C37 (no pods for deleted deployments): the reconciler adds a pod to the
\* store only for a deployment that is in the store at the moment of the add
C37_NoPodForDeletedDeployment ==
    [][AddsPod => rec.deployment.name \in DOMAIN deployments]_vars

-----------------------------------------------------------------------------
\* one PUT changed the image and lowered replicas: the pods the deployment had
\* then are Running at the old revision and number at least
\* replicas + max_surge, with max_unavailable = 0
LoweredRolloutStart ==
    /\ "web" \in DOMAIN deployments
    /\ LET d == deployments["web"]
           mine == {i \in DOMAIN pods : Active(pods[i])}
       IN  /\ d.revision = 2
           /\ d.rolling_update.max_unavailable = 0
           /\ Cardinality(mine) >= d.replicas + d.rolling_update.max_surge
           /\ began["web"] = Cardinality(mine)
           /\ \A i \in mine : pods[i].status = "Running" /\ pods[i].revision = 1
           /\ next_uuid + d.replicas <= MaxPods

-----------------------------------------------------------------------------
\* C39 (Failed pods do not accumulate): every pod that is Failed in the store
\* is removed from the store at some later time, unless its deployment is
\* gone then
C39_FailedPodsCollected ==
    \A p \in 1..MaxPods :
        (p \in DOMAIN pods /\ pods[p].status = "Failed")
            ~> (\/ p \notin DOMAIN pods
                \/ pods[p].deployment_name \notin DOMAIN deployments)

-----------------------------------------------------------------------------
\* handler h has answered 201
Created(h) == creates[h].pc = "done" /\ creates[h].code = 201

\* C40 (atomic create): of the POST /deployments requests for one name, at
\* most one is answered 201, and the deployment in the store is made of the
\* request that was
C40_AtomicCreate ==
    /\ \A h1 \in Handlers : \A h2 \in Handlers \ {h1} :
          (Created(h1) /\ Created(h2)) => creates[h1].req.name # creates[h2].req.name
    /\ \A h \in Handlers :
          Created(h) =>
              LET d == deployments[creates[h].req.name]
                  req == creates[h].req
              IN  /\ d.image = req.image
                  /\ d.replicas = req.replicas
                  /\ d.resources = req.resources
                  /\ d.rolling_update = req.rolling_update

====
